---- MODULE Spec2Model ----
(***************************************************************************)
(* Verification model of goodchanges: the change-impact analyzer for a     *)
(* Rush/pnpm TypeScript monorepo.                                          *)
(*                                                                         *)
(* Strings of the program are modelled as sequences of tokens (a token is  *)
(* an atomic chunk of characters such as "u", "/", "styles", ".css"), so   *)
(* prefix, suffix and substring tests are computed the way the Go code     *)
(* computes them.  Go maps are functions with an explicit, growing DOMAIN. *)
(***************************************************************************)
EXTENDS Integers, Sequences, FiniteSets, TLC

\* ------------------------------------------------------------------------
\* strings.* helpers over token sequences
\* ------------------------------------------------------------------------

HasPrefix(s, p) == Len(p) <= Len(s) /\ SubSeq(s, 1, Len(p)) = p

HasSuffix(s, p) == Len(p) <= Len(s) /\ SubSeq(s, Len(s) - Len(p) + 1, Len(s)) = p

TrimPrefix(s, p) == IF HasPrefix(s, p) THEN SubSeq(s, Len(p) + 1, Len(s)) ELSE s

Contains(s, sub) == \E i \in 0..(Len(s) - Len(sub)) : SubSeq(s, i + 1, i + Len(sub)) = sub

Range(s) == {s[i] : i \in 1..Len(s)}

RECURSIVE SetToSeq(_)
SetToSeq(S) == IF S = {} THEN <<>>
               ELSE LET x == CHOOSE y \in S : TRUE IN <<x>> \o SetToSeq(S \ {x})

RECURSIVE FlattenSeq(_)
FlattenSeq(ss) == IF ss = <<>> THEN <<>> ELSE Head(ss) \o FlattenSeq(Tail(ss))

\* map[string]map[string]bool: lookup of a possibly missing key
Get(m, k) == IF k \in DOMAIN m THEN m[k] ELSE {}

\* m[k][n] = true for every n in names (creating m[k] when it is nil)
AddAll(m, k, names) == [x \in DOMAIN m \cup {k} |-> IF x = k THEN Get(m, k) \cup names ELSE m[x]]

\* With(v, F): F applied to the value of v; v is evaluated once, like an
\* assignment to a local variable of the code
With(v, F(_)) == CHOOSE r \in {F(x) : x \in {v}} : TRUE

EmptyMap == [x \in {} |-> {}]

\* ------------------------------------------------------------------------
\* The run's inputs: the workspace on disk, the git state and the flags.
\* ws is a record chosen by Init and never changed by the program:
\*   projects       rush.json "projects": sequence of [PackageName, ProjectFolder]
\*   pkg            package.json per package: isLib, dependencies,
\*                  devDependencies (name -> version), entrypoints
\*   files, old     parsed source files per package (HEAD / merge base)
\*   styles         .scss/.css files per package with their @use specifiers
\*   cfg            .goodchangesrc.json per package
\*   changedFiles   git diff --name-only
\*   depChangedDeps lockfile-affected external deps per project folder
\*   includeTypes, includeCSS, targetPatterns, failing
\* ------------------------------------------------------------------------
VARIABLES ws,               \* the workspace, git state and flags of the run
          pc,               \* where main is
          levels, levelIdx, \* rush.TopologicalSort's result and the loop index
          toSpawn,          \* packages of the level not walked yet
          running,          \* started goroutines: package -> its snapshot
          resultsCh,        \* the buffered results channel
          allUpstreamTaint, \* the shared upstream-taint map
          merged,           \* packages whose level has been merged
          snapSeen,         \* package -> merged, as it was when its snapshot was built
          ti, changedE2E,   \* target loop index and result map
          output,           \* the list written to standard output
          inp, res          \* input and result of a function under test

Slash == <<"/">>

WorkspacePrefix == <<"workspace:">>

PackageNames(w) == {w.projects[i].PackageName : i \in DOMAIN w.projects}

\* position of package p in rush.json (package names are unique there)
ProjectIndex(w, p) == CHOOSE i \in DOMAIN w.projects : w.projects[i].PackageName = p

FolderOf(w, p) == w.projects[ProjectIndex(w, p)].ProjectFolder

\* rush.BuildProjectMap: workspace dependencies first from "dependencies",
\* then from "devDependencies"; a name listed in both appears twice.
WorkspaceDeps(w, m) ==
    SetToSeq({d \in DOMAIN m : HasPrefix(m[d], WorkspacePrefix) /\ d \in PackageNames(w)})

DependsOn(w, p) == WorkspaceDeps(w, w.pkg[p].dependencies) \o WorkspaceDeps(w, w.pkg[p].devDependencies)

\* number of times dep occurs in DependsOn(p)
DepCount(w, p, dep) == Cardinality({i \in DOMAIN DependsOn(w, p) : DependsOn(w, p)[i] = dep})

\* reverse edges: name is appended to target.DependedOnBy once per occurrence
DependedOnByCount(w, p, name) == DepCount(w, name, p)

DependedOnBy(w, p) == {n \in PackageNames(w) : DependedOnByCount(w, p, n) > 0}

\* rush.FindChangedProjects (three-argument form used by main)
FindChangedProjects(w) ==
    {p \in PackageNames(w) :
        \E f \in w.changedFiles :
            /\ HasPrefix(f, FolderOf(w, p) \o Slash)
            \* "break" after the first project whose folder is a prefix
            /\ \A i \in DOMAIN w.projects :
                  HasPrefix(f, w.projects[i].ProjectFolder \o Slash)
                      => i >= ProjectIndex(w, p)}

\* main: dep-affected projects count as directly changed
ChangedProjects(w) ==
    FindChangedProjects(w) \cup
        {p \in PackageNames(w) : FolderOf(w, p) \in DOMAIN w.depChangedDeps}

RECURSIVE DependentsClosure(_, _)
DependentsClosure(w, visited) ==
    With(visited \cup UNION {DependedOnBy(w, p) : p \in visited \cap PackageNames(w)},
         LAMBDA next : IF next = visited THEN visited ELSE DependentsClosure(w, next))

FindTransitiveDependents(w, seeds) == DependentsClosure(w, seeds)

\* no dependency is counted
InitialInDegreeZero(w, packages) == [p \in packages |-> 0]

\* a dependency listed in both maps is counted once
InitialInDegreeDistinct(w, packages) ==
    [p \in packages |-> Cardinality(Range(DependsOn(w, p)) \cap packages)]

\* inDegree[p]++ for every entry of DependsOn(p) that is in the set
InitialInDegree(w, packages) ==
    [p \in packages |->
        Cardinality({i \in DOMAIN DependsOn(w, p) : DependsOn(w, p)[i] \in packages})]

\* every member of the level decrements each remaining dependent, once per
\* DependedOnBy entry; "remaining" shrinks while the level is walked, and a
\* dependent that is itself in the level is decremented only by the members
\* walked after it was deleted -- its count is never read again.
LevelDecrement(w, inDegree, level, remaining) ==
    [q \in DOMAIN inDegree |->
        IF q \in remaining \ level
        THEN inDegree[q] - Cardinality({<<p, i>> \in level \X (1..Len(DependsOn(w, q))) :
                                          DependsOn(w, q)[i] = p})
        ELSE inDegree[q]]

RECURSIVE TopoLoop(_, _, _, _)
TopoLoop(w, remaining, inDegree, lvs) ==
    IF remaining = {} THEN lvs
    ELSE With({p \in remaining : inDegree[p] = 0}, LAMBDA ready :
           \* cycle: dump remaining to avoid infinite loop
           With(IF ready = {} THEN remaining ELSE ready, LAMBDA level :
             With(LevelDecrement(w, inDegree, level, remaining), LAMBDA deg :
               TopoLoop(w, remaining \ level, deg, Append(lvs, level)))))

TopologicalSort(w, packages) ==
    With(InitialInDegree(w, packages), LAMBDA inDegree : TopoLoop(w, packages, inDegree, <<>>))

\* TopologicalSort as the loop runs: the state before the first iteration
\* of "for len(remaining) > 0" and the effect of one iteration
TopoStart(w, packages) ==
    [remaining |-> packages, inDegree |-> InitialInDegree(w, packages), levels |-> <<>>]

\* without the cycle fallback an iteration that finds no package ready
\* leaves everything as it is
TopoIterationNoDump(w, st) ==
    With({p \in st.remaining : st.inDegree[p] = 0}, LAMBDA ready :
        IF ready = {} THEN st
        ELSE [remaining |-> st.remaining \ ready,
              inDegree |-> LevelDecrement(w, st.inDegree, ready, st.remaining),
              levels |-> Append(st.levels, ready)])

TopoIteration(w, st) ==
    With({p \in st.remaining : st.inDegree[p] = 0}, LAMBDA ready :
      With(IF ready = {} THEN st.remaining ELSE ready, LAMBDA level :
        [remaining |-> st.remaining \ level,
         inDegree |-> LevelDecrement(w, st.inDegree, level, st.remaining),
         levels |-> Append(st.levels, level)]))

\* ------------------------------------------------------------------------
\* tsparse: a source file is its statements as the parser sees them
\*   importDecls  [source, default, ns, named: <<[propertyName, name]>>]
\*   exportDecls  [kind, source, name, propertyName ..., typeOnly]
\*   symbols      [Name, IsTypeOnly, text, ranges, pos, hasStmt]
\* Absent identifiers are the empty string <<>>.
\* ------------------------------------------------------------------------
None == <<>>

Star == <<"*">>

NsPrefix == <<"*:">>

NilAnalysis == [present |-> FALSE, importDecls |-> <<>>, exportDecls |-> <<>>, symbols |-> <<>>]

\* extractImports: one Import{Names, Source} per import declaration.  The
\* default binding and every named binding contribute their LOCAL name
\* (is.Name()), the namespace binding contributes "*:" + alias.
extractImports(decl) ==
    [Source |-> decl.source,
     Names  |-> (IF decl.default # None THEN <<decl.default>> ELSE <<>>)
                \o (IF decl.ns # None THEN <<NsPrefix \o decl.ns>>
                    ELSE [i \in DOMAIN decl.named |-> decl.named[i].name])]

Imports(analysis) == [i \in DOMAIN analysis.importDecls |-> extractImports(analysis.importDecls[i])]

MkExport(name, localName, source, typeOnly, star) ==
    [Name |-> name, LocalName |-> localName, Source |-> source,
     IsTypeOnly |-> typeOnly, IsStar |-> star]

\* extractExports: the Export records of one statement
extractExports(decl) ==
    CASE decl.kind = "star" ->
            <<MkExport(Star, Star, decl.source, decl.typeOnly, TRUE)>>
      [] decl.kind = "named" ->
            [i \in DOMAIN decl.specs |->
                MkExport(decl.specs[i].name,
                         IF decl.specs[i].propertyName # None
                         THEN decl.specs[i].propertyName ELSE decl.specs[i].name,
                         decl.source,
                         decl.typeOnly \/ decl.specs[i].typeOnly, FALSE)]
      [] decl.kind = "namespace" ->
            <<MkExport(decl.name, Star, decl.source, decl.typeOnly, FALSE)>>
      [] decl.kind = "assignment" ->
            <<MkExport(<<"default">>, <<"default">>, None, FALSE, FALSE)>>
      [] decl.kind = "decl" ->
            <<MkExport(IF decl.isDefault THEN <<"default">> ELSE decl.name,
                       decl.name, None, FALSE, FALSE)>>

Exports(analysis) ==
    FlattenSeq([i \in DOMAIN analysis.exportDecls |-> extractExports(analysis.exportDecls[i])])

SymbolNames(analysis) == {analysis.symbols[i].Name : i \in DOMAIN analysis.symbols}

\* ------------------------------------------------------------------------
\* astdiff.go
\* ------------------------------------------------------------------------
Space == " "

RECURSIVE CollapseSpaces(_, _)
CollapseSpaces(s, inSpace) ==
    IF s = <<>> THEN <<>>
    ELSE IF Head(s) = Space
         THEN (IF inSpace THEN <<>> ELSE <<Space>>) \o CollapseSpaces(Tail(s), TRUE)
         ELSE <<Head(s)>> \o CollapseSpaces(Tail(s), FALSE)

TrimSpace(s) ==
    With(IF s # <<>> /\ Head(s) = Space THEN Tail(s) ELSE s, LAMBDA a :
        IF a # <<>> /\ a[Len(a)] = Space THEN SubSeq(a, 1, Len(a) - 1) ELSE a)

\* collapses all whitespace runs to single spaces and trims
normalizeWhitespace(s) == TrimSpace(CollapseSpaces(s, FALSE))

Swap(sq, i, j) == [sq EXCEPT ![i] = sq[j], ![j] = sq[i]]

\* the exchange sort of stripRanges: for i, for j > i, swap when
\* sorted[j][0] < sorted[i][0]
RECURSIVE SortInner(_, _, _)
SortInner(sq, i, j) ==
    IF j > Len(sq) THEN sq
    ELSE With(IF sq[j][1] < sq[i][1] THEN Swap(sq, i, j) ELSE sq,
              LAMBDA next : SortInner(next, i, j + 1))

RECURSIVE SortOuter(_, _)
SortOuter(sq, i) ==
    IF i > Len(sq) THEN sq
    ELSE With(SortInner(sq, i, i + 1), LAMBDA next : SortOuter(next, i + 1))

SortRanges(ranges) == SortOuter(ranges, 1)

\* text[a:b] of Go (0-based, half-open)
Slice(text, a, b) == SubSeq(text, a + 1, b)

\* the copy loop of stripRanges: out is the builder, pos the read position
RECURSIVE StripLoop(_, _, _, _, _)
StripLoop(text, sorted, offset, pos, out) ==
    IF sorted = <<>>
    THEN (IF pos < Len(text) THEN out \o Slice(text, pos, Len(text)) ELSE out)
    ELSE With(Head(sorted), LAMBDA r :
           With(IF r[1] - offset < 0 THEN 0 ELSE r[1] - offset, LAMBDA start0 :
             With(IF r[2] - offset > Len(text) THEN Len(text) ELSE r[2] - offset, LAMBDA end :
               With(IF start0 < pos THEN pos ELSE start0, LAMBDA start :
                 With(IF start > pos THEN out \o Slice(text, pos, start) ELSE out,
                      LAMBDA next : StripLoop(text, Tail(sorted), offset, end, next))))))

\* removes the given [start, end) ranges from the text
stripRanges(text, ranges, offset) ==
    IF ranges = <<>> THEN text
    ELSE With(SortRanges(ranges), LAMBDA sorted : StripLoop(text, sorted, offset, 0, <<>>))

\* sym.text is the statement's text sourceText[stmt.Pos():stmt.End()],
\* sym.ranges what collectTypeOnlyRanges returns for the statement
extractRuntimeText(sym) == normalizeWhitespace(stripRanges(sym.text, sym.ranges, sym.pos))

\* body text of a symbol (ExtractTextForLines over the symbol's lines)
BodyText(sym) == sym.text

\* last declaration of a name wins, as in a Go map filled in a loop
LastSymbol(symbols, name) ==
    symbols[CHOOSE i \in DOMAIN symbols :
                /\ symbols[i].Name = name
                /\ \A j \in DOMAIN symbols : symbols[j].Name = name => j <= i]

FirstSymbol(symbols, name) ==
    symbols[CHOOSE i \in DOMAIN symbols :
                /\ symbols[i].Name = name
                /\ \A j \in DOMAIN symbols : symbols[j].Name = name => j >= i]

\* oldSymbolRuntimeTexts[name], "" when the key is missing
OldRuntimeText(oldAnalysis, name) ==
    IF ~oldAnalysis.present THEN <<>>
    ELSE With({i \in DOMAIN oldAnalysis.symbols :
                  /\ oldAnalysis.symbols[i].Name = name
                  /\ ~oldAnalysis.symbols[i].IsTypeOnly
                  /\ oldAnalysis.symbols[i].hasStmt},
              LAMBDA cands :
                IF cands = {} THEN <<>>
                ELSE extractRuntimeText(
                         oldAnalysis.symbols[CHOOSE i \in cands : \A j \in cands : j <= i]))

\* the first loop of findAffectedSymbolsByASTDiff: is new symbol sym affected?
SymbolChanged(oldAnalysis, sym, includeTypes) ==
    IF ~(oldAnalysis.present /\ sym.Name \in SymbolNames(oldAnalysis))
    THEN ~(sym.IsTypeOnly /\ ~includeTypes)
    ELSE IF normalizeWhitespace(BodyText(sym))
            = normalizeWhitespace(BodyText(LastSymbol(oldAnalysis.symbols, sym.Name)))
         THEN FALSE
    ELSE IF sym.IsTypeOnly THEN includeTypes
    ELSE With(OldRuntimeText(oldAnalysis, sym.Name), LAMBDA oldRuntime :
           With(IF sym.hasStmt THEN extractRuntimeText(sym) ELSE <<>>, LAMBDA newRuntime :
             IF oldRuntime # <<>> /\ newRuntime # <<>> /\ oldRuntime = newRuntime
             THEN includeTypes
             ELSE TRUE))

\* dependsOn[sym.Name]: the other symbols whose name occurs in sym's body
SymbolDeps(analysis, sym) ==
    {n \in SymbolNames(analysis) : n # sym.Name /\ Contains(BodyText(sym), n)}

\* affectedTypeOnly[name]: the IsTypeOnly flag of the symbol.  For a symbol
\* of the initial list it is read from the first declaration of the name,
\* for a propagated one from the symbol itself.
AffectedTypeOnly(analysis, name) == FirstSymbol(analysis.symbols, name).IsTypeOnly

\* "Propagate until stable": one pass adds every symbol with an affected
\* dependency, unless the dependency is type-only and the symbol is not
RECURSIVE PropagateAffected(_, _)
PropagateAffected(analysis, affectedSet) ==
    With({analysis.symbols[i].Name : i \in
             {i \in DOMAIN analysis.symbols :
                 /\ analysis.symbols[i].Name \notin affectedSet
                 /\ \E dep \in SymbolDeps(analysis, analysis.symbols[i]) :
                       /\ dep \in affectedSet
                       /\ ~(AffectedTypeOnly(analysis, dep)
                            /\ ~analysis.symbols[i].IsTypeOnly)}},
         LAMBDA add : IF add = {} THEN affectedSet
                      ELSE PropagateAffected(analysis, affectedSet \cup add))

\* the symbols the first loop reports
DirectlyAffected(oldAnalysis, newAnalysis, includeTypes) ==
    {newAnalysis.symbols[i].Name : i \in
        {i \in DOMAIN newAnalysis.symbols :
            SymbolChanged(oldAnalysis, newAnalysis.symbols[i], includeTypes)}}

\* findAffectedSymbolsByASTDiff, as the set of returned names
findAffectedSymbolsByASTDiff(oldAnalysis, newAnalysis, includeTypes) ==
    IF ~newAnalysis.present THEN {}
    ELSE With(DirectlyAffected(oldAnalysis, newAnalysis, includeTypes), LAMBDA affected :
           IF affected = {} THEN {}
           ELSE {n \in PropagateAffected(newAnalysis, affected) :
                    ~(AffectedTypeOnly(newAnalysis, n) /\ ~includeTypes)})

\* ------------------------------------------------------------------------
\* analyzer: paths, style predicates, small helpers
\* ------------------------------------------------------------------------
\* IncludeCSS, the package-level flag main sets from INCLUDE_CSS
IncludeCSS(w) == w.includeCSS

CSSTaintPrefix == <<"__css__:">>

SourceExts == {".ts", ".tsx", ".js", ".jsx"}

StyleExts == {".scss", ".css"}

\* filepath.Ext: the extension token a path ends with, "" when it has none
Ext(path) == IF path # <<>> /\ path[Len(path)] \in SourceExts \cup StyleExts \cup {".md", ".json"}
             THEN path[Len(path)] ELSE ""

\* stripTSExtension: the path without its source extension
stripTSExtension(path) ==
    IF path # <<>> /\ path[Len(path)] \in SourceExts THEN SubSeq(path, 1, Len(path) - 1) ELSE path

\* filepath.Dir of a project-relative path; <<>> stands for "."
RECURSIVE Dir(_)
Dir(path) == IF path = <<>> THEN <<>>
             ELSE IF path[Len(path)] = "/" THEN SubSeq(path, 1, Len(path) - 1)
             ELSE Dir(SubSeq(path, 1, Len(path) - 1))

\* filepath.Join(dir, rel) followed by Clean, for rel = "./x" or "x"
Join(dir, rel) ==
    LET r == TrimPrefix(rel, <<"./">>) IN IF dir = <<>> THEN r ELSE dir \o Slash \o r

IsRelative(source) == source # <<>> /\ Head(source) \in {"./", "../", "."}

Stems(w, p) == {stripTSExtension(rp) : rp \in DOMAIN w.files[p]}

\* fileAnalyses[stem]
FileAnalysis(w, p, stem) ==
    w.files[p][CHOOSE rp \in DOMAIN w.files[p] : stripTSExtension(rp) = stem]

\* resolveImportSource: the stem a relative specifier resolves to, probing
\* the file first and then its index file; "" when nothing is found
resolveImportSource(w, p, fileDir, source) ==
    IF ~IsRelative(source) THEN None
    ELSE With(stripTSExtension(Join(fileDir, source)), LAMBDA base :
            With(Stems(w, p), LAMBDA stems :
                IF base \in stems THEN base
                ELSE IF base \o <<"/", "index">> \in stems THEN base \o <<"/", "index">>
                ELSE None))

\* isStyleImport: the source looks like a CSS/SCSS import
isStyleImport(source) ==
    \/ HasSuffix(source, <<".css">>) \/ HasSuffix(source, <<".scss">>)
    \/ Contains(source, <<"/", "styles", "/">>) \/ Contains(source, <<"/", "styles">>)

isCSSModule(source) ==
    HasSuffix(source, <<".module", ".scss">>) \/ HasSuffix(source, <<".module", ".css">>)

\* matchesCSSTaint: a style import from a package with a "__css__:" entry
matchesCSSTaint(importSource, upstreamTaint) ==
    /\ isStyleImport(importSource)
    /\ \E key \in DOMAIN upstreamTaint :
          /\ HasPrefix(key, CSSTaintPrefix)
          /\ LET pkgName == TrimPrefix(key, CSSTaintPrefix)
             IN HasPrefix(importSource, pkgName \o Slash) \/ importSource = pkgName

isFromTaintedDep(importSource, taintedDeps) ==
    \E depName \in taintedDeps :
        importSource = depName \/ HasPrefix(importSource, depName \o Slash)

CleanName(n) == IF HasPrefix(n, NsPrefix) THEN TrimPrefix(n, NsPrefix) ELSE n

\* findTaintedSymbolsByUsage: the symbols whose body mentions a tainted name
findTaintedSymbolsByUsage(analysis, taintedNames) ==
    {analysis.symbols[i].Name : i \in
        {i \in DOMAIN analysis.symbols :
            \E n \in taintedNames : Contains(BodyText(analysis.symbols[i]), CleanName(n))}}

\* local export clauses that re-export one of the given local bindings
DirectReexports(analysis, localNames) ==
    {e.Name : e \in {x \in Range(Exports(analysis)) :
                        x.Source = None /\ \E n \in localNames : x.LocalName = CleanName(n)}}

\* ------------------------------------------------------------------------
\* AnalyzeLibraryPackage: import graph
\* ------------------------------------------------------------------------
ReexportPlaceholder == <<"*:", "__reexport__">>

MkEdge(fromStem, localNames, origNames, side) ==
    [fromStem |-> fromStem, localNames |-> localNames, origNames |-> origNames,
     isSideEffect |-> side]

\* the edge of one relative import
ImportEdge(imp, resolvedStem) ==
    MkEdge(resolvedStem, imp.Names,
           [i \in DOMAIN imp.Names |-> IF HasPrefix(imp.Names[i], NsPrefix) THEN Star ELSE imp.Names[i]],
           Len(imp.Names) = 0)

RECURSIVE ImportEdges(_, _, _, _)
ImportEdges(w, p, fileDir, imps) ==
    IF imps = <<>> THEN <<>>
    ELSE With(Head(imps), LAMBDA imp :
            With(resolveImportSource(w, p, fileDir, imp.Source), LAMBDA resolvedStem :
                (IF IsRelative(imp.Source) /\ resolvedStem # None
                 THEN <<ImportEdge(imp, resolvedStem)>> ELSE <<>>)
                \o ImportEdges(w, p, fileDir, Tail(imps))))

\* re-exports become synthetic edges unless the file already has an edge
\* to the same source
RECURSIVE AddReexportEdges(_, _, _, _, _)
AddReexportEdges(w, p, fileDir, exps, edges) ==
    IF exps = <<>> THEN edges
    ELSE With(Head(exps), LAMBDA exp :
            With(resolveImportSource(w, p, fileDir, exp.Source), LAMBDA resolvedStem :
                With(IF \/ exp.Source = None \/ ~IsRelative(exp.Source) \/ resolvedStem = None
                        \/ \E i \in DOMAIN edges : edges[i].fromStem = resolvedStem
                     THEN edges
                     ELSE Append(edges,
                                 IF exp.IsStar
                                 THEN MkEdge(resolvedStem, <<ReexportPlaceholder>>, <<Star>>, FALSE)
                                 ELSE MkEdge(resolvedStem, <<exp.LocalName>>, <<exp.LocalName>>,
                                             FALSE)),
                     LAMBDA next : AddReexportEdges(w, p, fileDir, Tail(exps), next))))

\* importGraph[stem]
importGraph(w, p, stem) ==
    With(FileAnalysis(w, p, stem), LAMBDA analysis :
        With(Dir(stem), LAMBDA fileDir :
            With(ImportEdges(w, p, fileDir, Imports(analysis)), LAMBDA edges :
                AddReexportEdges(w, p, fileDir, Exports(analysis), edges))))

\* reverseImports[stem]: the files with an edge to stem
reverseImports(w, p, stem) ==
    {imp \in Stems(w, p) : \E e \in Range(importGraph(w, p, imp)) : e.fromStem = stem}

\* ------------------------------------------------------------------------
\* AnalyzeLibraryPackage: seeding
\* ------------------------------------------------------------------------
projectChangedFiles(w, p) == {f \in w.changedFiles : HasPrefix(f, FolderOf(w, p) \o Slash)}

RelToProject(w, p, f) == TrimPrefix(f, FolderOf(w, p) \o Slash)

changedStyleFiles(w, p) ==
    {rel \in {RelToProject(w, p, f) : f \in projectChangedFiles(w, p)} : Ext(rel) \in StyleExts}

\* git.ShowFile + ParseContent: the file at the merge base, nil when it
\* did not exist
OldAnalysis(w, p, relPath) ==
    IF relPath \in DOMAIN w.old[p] THEN w.old[p][relPath] ELSE NilAnalysis

\* seed of one file from the AST diff of the changed files
SeedASTDiff(w, p, stem, includeTypes) ==
    UNION {findAffectedSymbolsByASTDiff(OldAnalysis(w, p, rel), w.files[p][rel], includeTypes) :
              rel \in {r \in DOMAIN w.files[p] :
                          /\ FolderOf(w, p) \o Slash \o r \in w.changedFiles
                          /\ Ext(r) \in SourceExts
                          /\ stripTSExtension(r) = stem}}

\* imports of a changed local style file
ChangedStyleImports(w, p, stem) ==
    With(changedStyleFiles(w, p), LAMBDA changed :
        {imp \in Range(Imports(FileAnalysis(w, p, stem))) :
            /\ IsRelative(imp.Source)
            /\ isStyleImport(imp.Source)
            /\ Join(Dir(stem), imp.Source) \in changed})

SeedLocalStyle(w, p, stem) ==
    With(FileAnalysis(w, p, stem), LAMBDA analysis :
        UNION {IF isCSSModule(imp.Source) /\ Len(imp.Names) > 0
               THEN findTaintedSymbolsByUsage(analysis, Range(imp.Names))
               ELSE SymbolNames(analysis) : imp \in ChangedStyleImports(w, p, stem)})

NonRelativeImports(analysis) == {imp \in Range(Imports(analysis)) : ~IsRelative(imp.Source)}

\* the local bindings of one import that upstream taint reaches
TaintedLocalNames(imp, affectedNames) ==
    {n \in Range(imp.Names) : HasPrefix(n, NsPrefix) \/ n \in affectedNames}

\* does the import create tainted[stem] in the upstream seeding loop?
UpstreamHit(w, analysis, imp, upstreamTaint) ==
    With(Get(upstreamTaint, imp.Source), LAMBDA affectedNames :
        IF affectedNames = {}
        THEN IncludeCSS(w) /\ matchesCSSTaint(imp.Source, upstreamTaint)
        ELSE IF Len(imp.Names) = 0 THEN TRUE
        ELSE With(TaintedLocalNames(imp, affectedNames), LAMBDA tln :
                /\ tln # {}
                /\ (findTaintedSymbolsByUsage(analysis, tln)
                    \cup DirectReexports(analysis, tln)) # {}))

\* what one import adds to tainted[stem] in the upstream seeding loop
UpstreamNames(w, analysis, imp, upstreamTaint) ==
    With(Get(upstreamTaint, imp.Source), LAMBDA affectedNames :
        IF affectedNames = {}
        THEN (IF IncludeCSS(w) /\ matchesCSSTaint(imp.Source, upstreamTaint)
              THEN SymbolNames(analysis) ELSE {})
        ELSE IF Len(imp.Names) = 0 THEN SymbolNames(analysis)
        ELSE With(TaintedLocalNames(imp, affectedNames), LAMBDA tln :
                findTaintedSymbolsByUsage(analysis, tln) \cup DirectReexports(analysis, tln)))

SeedUpstream(w, p, stem, upstreamTaint) ==
    IF DOMAIN upstreamTaint = {} THEN {}
    ELSE With(FileAnalysis(w, p, stem), LAMBDA analysis :
            UNION {UpstreamNames(w, analysis, imp, upstreamTaint) :
                      imp \in NonRelativeImports(analysis)})

\* imports and re-exports of a tainted external dependency
ExternalImports(analysis, taintedExternalDeps) ==
    {imp \in NonRelativeImports(analysis) : isFromTaintedDep(imp.Source, taintedExternalDeps)}

ExternalReexports(analysis, taintedExternalDeps) ==
    {e \in Range(Exports(analysis)) :
        /\ e.Source # None
        /\ ~IsRelative(e.Source)
        /\ isFromTaintedDep(e.Source, taintedExternalDeps)}

SeedExternal(w, p, stem, taintedExternalDeps) ==
    With(FileAnalysis(w, p, stem), LAMBDA analysis :
        (UNION {IF Len(imp.Names) = 0 THEN SymbolNames(analysis)
                ELSE findTaintedSymbolsByUsage(analysis, Range(imp.Names))
                     \cup DirectReexports(analysis, Range(imp.Names)) :
                   imp \in ExternalImports(analysis, taintedExternalDeps)})
        \cup {IF e.IsStar THEN Star ELSE e.Name :
                 e \in ExternalReexports(analysis, taintedExternalDeps)})

\* tainted[stem] exists after seeding
SeedKey(w, p, stem, includeTypes, upstreamTaint, taintedExternalDeps) ==
    With(FileAnalysis(w, p, stem), LAMBDA analysis :
        \/ SeedASTDiff(w, p, stem, includeTypes) # {}
        \/ ChangedStyleImports(w, p, stem) # {}
        \/ /\ DOMAIN upstreamTaint # {}
           /\ \E imp \in NonRelativeImports(analysis) : UpstreamHit(w, analysis, imp, upstreamTaint)
        \/ ExternalImports(analysis, taintedExternalDeps) # {}
        \/ ExternalReexports(analysis, taintedExternalDeps) # {})

\* the taint map after the four seeding steps
SeedTaint(w, p, includeTypes, upstreamTaint, taintedExternalDeps) ==
    [stem \in {st \in Stems(w, p) :
                  SeedKey(w, p, st, includeTypes, upstreamTaint, taintedExternalDeps)} |->
        SeedASTDiff(w, p, stem, includeTypes)
        \cup SeedLocalStyle(w, p, stem)
        \cup SeedUpstream(w, p, stem, upstreamTaint)
        \cup SeedExternal(w, p, stem, taintedExternalDeps)]

\* ------------------------------------------------------------------------
\* AnalyzeLibraryPackage: BFS propagation
\* ------------------------------------------------------------------------
\* edges of the importer that point at the file being visited
EdgesTo(w, p, importerStem, currentStem) ==
    {e \in Range(importGraph(w, p, importerStem)) : e.fromStem = currentStem}

\* local names of the importer that the visited file's taint reaches
EdgeTaintedLocalNames(edge, currentTainted) ==
    {edge.localNames[i] : i \in
        {i \in DOMAIN edge.origNames :
            IF edge.origNames[i] = Star THEN currentTainted # {}
            ELSE edge.origNames[i] \in currentTainted \/ Star \in currentTainted}}

\* "Handle re-exports" of the BFS step
ReexportTaint(w, p, importerStem, currentStem, currentTainted, taintedLocalNames) ==
    With(FileAnalysis(w, p, importerStem), LAMBDA analysis :
        DirectReexports(analysis, taintedLocalNames)
        \cup UNION {IF e.IsStar THEN currentTainted
                    ELSE IF e.LocalName \in currentTainted \/ Star \in currentTainted
                         THEN {e.Name} ELSE {} :
                       e \in {x \in Range(Exports(analysis)) :
                                 /\ x.Source # None
                                 /\ resolveImportSource(w, p, Dir(importerStem), x.Source)
                                        = currentStem}})

\* intra-file propagation of the BFS step: a symbol whose body mentions a
\* name of the set joins the set, until stable
RECURSIVE IntraFileClosure(_, _)
IntraFileClosure(analysis, taintedSet) ==
    With({analysis.symbols[i].Name : i \in
             {i \in DOMAIN analysis.symbols :
                 /\ analysis.symbols[i].Name \notin taintedSet
                 /\ \E tName \in taintedSet :
                       Contains(BodyText(analysis.symbols[i]), tName)}},
         LAMBDA add : IF add = {} THEN taintedSet
                      ELSE IntraFileClosure(analysis, taintedSet \cup add))

\* newlyTainted of one importer for the visited file
NewlyTainted(w, p, importerStem, currentStem, currentTainted) ==
    With(FileAnalysis(w, p, importerStem), LAMBDA analysis :
      With(EdgesTo(w, p, importerStem, currentStem), LAMBDA edges :
        With(\E e \in edges : e.isSideEffect, LAMBDA hasSideEffectImport :
          With(UNION {EdgeTaintedLocalNames(e, currentTainted) :
                         e \in {x \in edges : ~x.isSideEffect}},
               LAMBDA taintedLocalNames :
                 IF ~hasSideEffectImport /\ taintedLocalNames = {} THEN {}
                 ELSE With((IF hasSideEffectImport /\ currentTainted # {}
                            THEN SymbolNames(analysis) ELSE {})
                           \cup findTaintedSymbolsByUsage(analysis, taintedLocalNames)
                           \cup ReexportTaint(w, p, importerStem, currentStem, currentTainted,
                                              taintedLocalNames),
                           LAMBDA first : IF first = {} THEN {}
                                          ELSE IntraFileClosure(analysis, first))))))

\* the importer is put back on the queue whenever something was found
RECURSIVE VisitImportersAlways(_, _, _, _, _)
VisitImportersAlways(w, p, currentStem, importers, st) ==
    IF importers = <<>> THEN st
    ELSE With(Head(importers), LAMBDA importerStem :
           With(NewlyTainted(w, p, importerStem, currentStem, Get(st.tainted, currentStem)),
                LAMBDA newly :
                  With(IF newly = {} THEN st
                       ELSE [tainted |-> AddAll(st.tainted, importerStem, newly),
                             queue   |-> Append(st.queue, importerStem)],
                       LAMBDA next :
                         VisitImportersAlways(w, p, currentStem, Tail(importers), next))))

\* the loop over reverseImports[currentStem]; st = [tainted, queue]
RECURSIVE VisitImporters(_, _, _, _, _)
VisitImporters(w, p, currentStem, importers, st) ==
    IF importers = <<>> THEN st
    ELSE With(Head(importers), LAMBDA importerStem :
           With(NewlyTainted(w, p, importerStem, currentStem, Get(st.tainted, currentStem)),
                LAMBDA newly :
                  With(IF newly = {} THEN st
                       ELSE [tainted |-> AddAll(st.tainted, importerStem, newly),
                             queue   |-> IF newly \ Get(st.tainted, importerStem) # {}
                                         THEN Append(st.queue, importerStem)
                                         ELSE st.queue],
                       LAMBDA next : VisitImporters(w, p, currentStem, Tail(importers), next))))

\* one iteration of "for len(queue) > 0"
BFSVisit(w, p, st) ==
    With(Head(st.queue), LAMBDA currentStem :
        VisitImporters(w, p, currentStem, SetToSeq(reverseImports(w, p, currentStem)),
                       [tainted |-> st.tainted, queue |-> Tail(st.queue)]))

RECURSIVE BFSRun(_, _, _)
BFSRun(w, p, st) ==
    IF st.queue = <<>> THEN st.tainted
    ELSE With(BFSVisit(w, p, st), LAMBDA next : BFSRun(w, p, next))

\* ------------------------------------------------------------------------
\* AnalyzeLibraryPackage: entrypoint projection
\* ------------------------------------------------------------------------
\* affectedNames contributed by one export of the entrypoint file
ExportAffectedNames(w, p, ep, exp, tainted, includeTypes, taintedExternalDeps) ==
    IF exp.IsTypeOnly /\ ~includeTypes THEN <<>>
    ELSE IF exp.Source = None
         THEN With(Get(tainted, stripTSExtension(ep.SourceFile)), LAMBDA epTainted :
                 IF exp.LocalName \in epTainted \/ Star \in epTainted
                 THEN <<exp.Name>> ELSE <<>>)
    ELSE IF ~IsRelative(exp.Source)
         \* re-exports from tainted external deps; nothing else is looked up
         THEN (IF isFromTaintedDep(exp.Source, taintedExternalDeps) /\ ~exp.IsStar
               THEN <<exp.Name>> ELSE <<>>)
    ELSE With(resolveImportSource(w, p, Dir(ep.SourceFile), exp.Source), LAMBDA resolvedStem :
           IF resolvedStem = None \/ resolvedStem \notin DOMAIN tainted THEN <<>>
           ELSE With(Get(tainted, resolvedStem), LAMBDA srcTainted :
                  IF exp.IsStar THEN SetToSeq(srcTainted)
                  ELSE IF exp.LocalName \in srcTainted \/ Star \in srcTainted
                       THEN <<exp.Name>>
                  ELSE <<>>))

\* the dedup loop: drops the "*" marker and repeated names
RECURSIVE Dedupe(_, _)
Dedupe(names, seen) ==
    IF names = <<>> THEN <<>>
    ELSE IF Head(names) = Star \/ Head(names) \in seen THEN Dedupe(Tail(names), seen)
    ELSE <<Head(names)>> \o Dedupe(Tail(names), seen \cup {Head(names)})

\* the AffectedExport of one entrypoint, <<>> when it has none
EntrypointResult(w, p, ep, tainted, includeTypes, taintedExternalDeps) ==
    With(stripTSExtension(ep.SourceFile), LAMBDA epStem :
        IF epStem \notin Stems(w, p) THEN <<>>
        ELSE With(Exports(FileAnalysis(w, p, epStem)), LAMBDA exps :
               With(FlattenSeq([i \in DOMAIN exps |->
                        ExportAffectedNames(w, p, ep, exps[i], tainted, includeTypes,
                                            taintedExternalDeps)]),
                    LAMBDA affectedNames :
                      IF Len(affectedNames) = 0 THEN <<>>
                      ELSE <<[EntrypointPath |-> ep.ExportPath,
                              ExportNames |-> Dedupe(affectedNames, {})]>>)))

\* AnalyzeLibraryPackage: the returned []AffectedExport (the error return
\* is modelled by the caller)
AnalyzeLibraryPackage(w, p, entrypoints, includeTypes, upstreamTaint, taintedExternalDeps) ==
    With(SeedTaint(w, p, includeTypes, upstreamTaint, taintedExternalDeps), LAMBDA seed :
        IF DOMAIN seed = {} THEN <<>>
        ELSE With(BFSRun(w, p, [tainted |-> seed, queue |-> SetToSeq(DOMAIN seed)]),
                  LAMBDA tainted :
                    FlattenSeq([i \in DOMAIN entrypoints |->
                        EntrypointResult(w, p, entrypoints[i], tainted, includeTypes,
                                         taintedExternalDeps)])))

\* ------------------------------------------------------------------------
\* project configuration (.goodchangesrc.json) and ignore globs
\* ------------------------------------------------------------------------
\* doublestar.Match over path tokens: "**" spans directories, "*" any run
\* of tokens inside one path segment, every other token matches itself
RECURSIVE GlobMatch(_, _)
GlobMatch(pat, path) ==
    IF pat = <<>> THEN path = <<>>
    ELSE IF Head(pat) = "**"
         THEN IF Len(pat) = 1 THEN TRUE
              ELSE \/ GlobMatch(SubSeq(pat, 3, Len(pat)), path)
                   \/ \E i \in DOMAIN path : path[i] = "/" /\ GlobMatch(pat, SubSeq(path, i + 1, Len(path)))
    ELSE IF Head(pat) = "*"
         THEN \/ GlobMatch(Tail(pat), path)
              \/ path # <<>> /\ Head(path) # "/" /\ GlobMatch(pat, Tail(path))
    ELSE path # <<>> /\ Head(path) = Head(pat) /\ GlobMatch(Tail(pat), Tail(path))

ConfigFileName == <<".goodchangesrc", ".json">>

\* a missing .goodchangesrc.json (LoadProjectConfig returns nil)
NilConfig == [present |-> FALSE, Type |-> "", App |-> None, TargetName |-> None,
              ChangeDirs |-> <<>>, Ignores |-> <<>>]

\* ProjectConfig.IsIgnored
IsIgnored(projCfg, relPath) ==
    IF relPath = ConfigFileName THEN TRUE
    ELSE IF ~projCfg.present THEN FALSE
    ELSE \E i \in DOMAIN projCfg.Ignores : GlobMatch(projCfg.Ignores[i], relPath)

IsTarget(projCfg) == projCfg.present /\ projCfg.Type = "target"

IsVirtualTarget(projCfg) == projCfg.present /\ projCfg.Type = "virtual-target"

LoadProjectConfig(w, p) == w.cfg[p]

\* ------------------------------------------------------------------------
\* files below a folder (globSourceFiles / globStyleFiles), as records
\* [rel, full, data] with rel relative to the folder
\* ------------------------------------------------------------------------
FilesBelow(w, folder, tree) ==
    UNION {{[rel  |-> TrimPrefix(FolderOf(w, p) \o Slash \o r, folder \o Slash),
             data |-> tree[p][r]] :
               r \in {x \in DOMAIN tree[p] : HasPrefix(FolderOf(w, p) \o Slash \o x, folder \o Slash)}} :
           p \in PackageNames(w)}

globSourceFiles(w, folder) == FilesBelow(w, folder, w.files)

globStyleFiles(w, folder) == FilesBelow(w, folder, w.styles)

Quotes == {"\"", "'"}

\* the specifier between the first two quotes of an "@use "/"@import " line,
\* kept unless it is local (".") or a sass: builtin
ScssLineUses(line) ==
    IF ~(HasPrefix(line, <<"@use", " ">>) \/ HasPrefix(line, <<"@import", " ">>)) THEN {}
    ELSE With({i \in DOMAIN line : line[i] \in Quotes}, LAMBDA qs :
           IF qs = {} THEN {}
           ELSE With(CHOOSE i \in qs : \A j \in qs : i <= j, LAMBDA start :
                  With({i \in qs : i > start}, LAMBDA rest :
                    IF rest = {} THEN {}
                    ELSE With(CHOOSE i \in rest : \A j \in rest : i <= j, LAMBDA end :
                           With(SubSeq(line, start + 1, end - 1), LAMBDA spec :
                             IF spec # <<>> /\ Head(spec) \in {".", "./", "../", "sass:"}
                             THEN {}
                             ELSE {spec})))))

\* parseScssUses: a style file is the sequence of its (trimmed) lines
parseScssUses(lines) == UNION {ScssLineUses(lines[i]) : i \in DOMAIN lines}

\* does one import of a scanned file make HasTaintedImports return true?
ImportIsTainted(w, imp, upstreamTaint) ==
    IF IsRelative(imp.Source) THEN FALSE
    ELSE With(Get(upstreamTaint, imp.Source), LAMBDA affectedNames :
           IF affectedNames = {}
           THEN IncludeCSS(w) /\ matchesCSSTaint(imp.Source, upstreamTaint)
           ELSE \/ Len(imp.Names) = 0
                \/ \E i \in DOMAIN imp.Names :
                      HasPrefix(imp.Names[i], NsPrefix) \/ imp.Names[i] \in affectedNames)

\* analyzer.HasTaintedImports
HasTaintedImports(w, folder, upstreamTaint, ignoreCfg) ==
    IF DOMAIN upstreamTaint = {} THEN FALSE
    ELSE \/ \E f \in globSourceFiles(w, folder) :
               /\ ~IsIgnored(ignoreCfg, f.rel)
               /\ \E imp \in Range(Imports(f.data)) : ImportIsTainted(w, imp, upstreamTaint)
         \/ /\ IncludeCSS(w)
            /\ \E sf \in globStyleFiles(w, folder) :
                  /\ ~IsIgnored(ignoreCfg, sf.rel)
                  /\ \E useSpec \in parseScssUses(sf.data) : matchesCSSTaint(useSpec, upstreamTaint)

\* ------------------------------------------------------------------------
\* CSS taint (FindCSSTaintedPackages, PropagateCSSTaint)
\* ------------------------------------------------------------------------
\* the first project of rush.json whose folder holds the file
OwnerOf(w, f) ==
    With({i \in DOMAIN w.projects : HasPrefix(f, w.projects[i].ProjectFolder \o Slash)},
         LAMBDA hits :
           IF hits = {} THEN {}
           ELSE {w.projects[CHOOSE i \in hits : \A j \in hits : i <= j].PackageName})

FindCSSTaintedPackages(w) ==
    UNION {OwnerOf(w, f) : f \in {g \in w.changedFiles : Ext(g) \in StyleExts}}

\* the package has a style file that @use's a CSS-tainted package
UsesTaintedStyles(w, p, cssTaintedPkgs) ==
    \E sf \in globStyleFiles(w, FolderOf(w, p)) :
        \E useSpec \in parseScssUses(sf.data) :
            \E taintedPkg \in cssTaintedPkgs :
                HasPrefix(useSpec, taintedPkg \o Slash) \/ useSpec = taintedPkg

\* one pass of the "for changed" loop over rush.json's projects, in order
RECURSIVE CSSPass(_, _, _)
CSSPass(w, i, cssTaintedPkgs) ==
    IF i > Len(w.projects) THEN cssTaintedPkgs
    ELSE With(w.projects[i].PackageName, LAMBDA p :
           With(IF p \notin cssTaintedPkgs /\ UsesTaintedStyles(w, p, cssTaintedPkgs)
                THEN cssTaintedPkgs \cup {p} ELSE cssTaintedPkgs,
                LAMBDA next : CSSPass(w, i + 1, next)))

RECURSIVE CSSFixpoint(_, _)
CSSFixpoint(w, cssTaintedPkgs) ==
    With(CSSPass(w, 1, cssTaintedPkgs), LAMBDA next :
        IF next = cssTaintedPkgs THEN cssTaintedPkgs ELSE CSSFixpoint(w, next))

RECURSIVE MarkCSS(_, _)
MarkCSS(upstreamTaint, pkgs) ==
    IF pkgs = {} THEN upstreamTaint
    ELSE With(CHOOSE x \in pkgs : TRUE, LAMBDA p :
           With(AddAll(upstreamTaint, CSSTaintPrefix \o p, {Star}),
                LAMBDA next : MarkCSS(next, pkgs \ {p})))

PropagateCSSTaint(w, upstreamTaint) ==
    With({TrimPrefix(key, CSSTaintPrefix) :
             key \in {k \in DOMAIN upstreamTaint : HasPrefix(k, CSSTaintPrefix)}},
         LAMBDA cssTaintedPkgs :
           IF cssTaintedPkgs = {} THEN upstreamTaint
           ELSE With(CSSFixpoint(w, cssTaintedPkgs) \ cssTaintedPkgs,
                     LAMBDA added : MarkCSS(upstreamTaint, added)))

\* main: the INCLUDE_CSS step after the level loop
CSSTaintStep(w, allTaint) ==
    IF ~IncludeCSS(w) THEN allTaint
    ELSE With(MarkCSS(allTaint, FindCSSTaintedPackages(w)),
              LAMBDA marked : PropagateCSSTaint(w, marked))

\* ------------------------------------------------------------------------
\* sort.Strings: byte order, given by the rank of the leading tokens
\* ------------------------------------------------------------------------
TokenOrder == <<".ts", "/", "a", "b", "c", "h", "lib", "mid", "scen", "src", "t", "v">>

TokenRank(t) == IF \E i \in DOMAIN TokenOrder : TokenOrder[i] = t
                THEN CHOOSE i \in DOMAIN TokenOrder : TokenOrder[i] = t ELSE 0

RECURSIVE LessStr(_, _)
LessStr(a, b) ==
    IF b = <<>> THEN FALSE
    ELSE IF a = <<>> THEN TRUE
    ELSE IF Head(a) = Head(b) THEN LessStr(Tail(a), Tail(b))
    ELSE TokenRank(Head(a)) < TokenRank(Head(b))

RECURSIVE InsertSorted(_, _)
InsertSorted(sorted, x) ==
    IF sorted = <<>> THEN <<x>>
    ELSE IF LessStr(x, Head(sorted)) THEN <<x>> \o sorted
    ELSE <<Head(sorted)>> \o InsertSorted(Tail(sorted), x)

RECURSIVE SortStrings(_)
SortStrings(seq) == IF seq = <<>> THEN <<>> ELSE InsertSorted(SortStrings(Tail(seq)), Head(seq))

\* ------------------------------------------------------------------------
\* FindAffectedFiles (fine-grained change directories)
\* ------------------------------------------------------------------------
\* fileMap: the source files of the project that match the glob and are
\* not ignored
fileMap(w, p, globPattern, ignoreCfg) ==
    {rel \in DOMAIN w.files[p] : GlobMatch(globPattern, rel) /\ ~IsIgnored(ignoreCfg, rel)}

AffectedSeed(w, p, fm, upstreamTaint, taintedExternalDeps, includeTypes) ==
    {rel \in fm :
        \/ /\ FolderOf(w, p) \o Slash \o rel \in w.changedFiles
           /\ With(OldAnalysis(w, p, rel), LAMBDA oldAnalysis :
                \/ ~oldAnalysis.present
                \/ findAffectedSymbolsByASTDiff(oldAnalysis, w.files[p][rel], includeTypes) # {})
        \/ \E imp \in Range(Imports(w.files[p][rel])) : ImportIsTainted(w, imp, upstreamTaint)
        \/ \E imp \in NonRelativeImports(w.files[p][rel]) :
               isFromTaintedDep(imp.Source, taintedExternalDeps)}

\* reverseImports[current]: the candidates that import or re-export it
FileImporters(w, p, fm, current) ==
    {rel \in fm :
        \/ \E imp \in Range(Imports(w.files[p][rel])) :
              /\ IsRelative(imp.Source)
              /\ resolveImportSource(w, p, Dir(rel), imp.Source) = stripTSExtension(current)
        \/ \E exp \in Range(Exports(w.files[p][rel])) :
              /\ exp.Source # None /\ IsRelative(exp.Source)
              /\ resolveImportSource(w, p, Dir(rel), exp.Source) = stripTSExtension(current)}

RECURSIVE AffectedClosure(_, _, _, _)
AffectedClosure(w, p, fm, affected) ==
    With(affected \cup UNION {FileImporters(w, p, fm, c) : c \in affected}, LAMBDA next :
        IF next = affected THEN affected ELSE AffectedClosure(w, p, fm, next))

FindAffectedFiles(w, p, globPattern, upstreamTaint, ignoreCfg, taintedExternalDeps, includeTypes) ==
    With(fileMap(w, p, globPattern, ignoreCfg), LAMBDA fm :
        With(AffectedSeed(w, p, fm, upstreamTaint, taintedExternalDeps, includeTypes),
             LAMBDA seed :
               IF seed = {} THEN <<>>
               ELSE SortStrings(SetToSeq(AffectedClosure(w, p, fm, seed)))))

\* ------------------------------------------------------------------------
\* main: target detection
\* ------------------------------------------------------------------------
RECURSIVE TrimLeft(_)
TrimLeft(s) == IF s # <<>> /\ Head(s) = Space THEN TrimLeft(Tail(s)) ELSE s

RECURSIVE TrimRight(_)
TrimRight(s) == IF s # <<>> /\ s[Len(s)] = Space THEN TrimRight(SubSeq(s, 1, Len(s) - 1)) ELSE s

\* the anchored regular expression built from a pattern: "*" is ".*"
RECURSIVE WildMatch(_, _)
WildMatch(pat, name) ==
    IF pat = <<>> THEN name = <<>>
    ELSE IF Head(pat) = "*"
         THEN WildMatch(Tail(pat), name) \/ (name # <<>> /\ WildMatch(pat, Tail(name)))
    ELSE name # <<>> /\ Head(name) = Head(pat) /\ WildMatch(Tail(pat), Tail(name))

\* the regular expression is not anchored: the pattern may match anywhere
\* in the name
RECURSIVE WildMatchPrefix(_, _)
WildMatchPrefix(pat, name) ==
    IF pat = <<>> THEN TRUE
    ELSE IF Head(pat) = "*"
         THEN WildMatchPrefix(Tail(pat), name) \/ (name # <<>> /\ WildMatchPrefix(pat, Tail(name)))
    ELSE name # <<>> /\ Head(name) = Head(pat) /\ WildMatchPrefix(Tail(pat), Tail(name))

matchesTargetFilterUnanchored(name, patterns) ==
    \E i \in DOMAIN patterns :
        \E pt \in {TrimRight(TrimLeft(patterns[i]))} :
            pt # <<>> /\ \E k \in 0..Len(name) : WildMatchPrefix(pt, SubSeq(name, k + 1, Len(name)))

matchesTargetFilter(name, patterns) ==
    \E i \in DOMAIN patterns :
        \E pt \in {TrimRight(TrimLeft(patterns[i]))} : pt # <<>> /\ WildMatch(pt, name)

\* the TARGETS filter lets the target through
PassesFilter(w, name) ==
    Len(w.targetPatterns) = 0 \/ matchesTargetFilter(name, w.targetPatterns)

\* Condition 1: a changed file under the project folder that is not ignored
Cond1(w, p, cfg) ==
    \E f \in w.changedFiles :
        /\ HasPrefix(f, FolderOf(w, p) \o Slash)
        /\ ~IsIgnored(cfg, TrimPrefix(f, FolderOf(w, p) \o Slash))

\* Condition 2: external dependency changes in the lockfile
Cond2(w, p) == Get(w.depChangedDeps, FolderOf(w, p)) # {}

\* Condition 3: tainted workspace imports
Cond3(w, p, cfg, allTaint) == HasTaintedImports(w, FolderOf(w, p), allTaint, cfg)

\* Condition 4: the corresponding app is tainted
Cond4(w, cfg, allTaint) ==
    /\ cfg.App # None
    /\ cfg.App \in PackageNames(w)
    /\ \/ cfg.App \in ChangedProjects(w)
       \/ Get(w.depChangedDeps, FolderOf(w, cfg.App)) # {}
       \/ HasTaintedImports(w, FolderOf(w, cfg.App), allTaint, NilConfig)

RegularTriggered(w, p, cfg, allTaint) ==
    Cond1(w, p, cfg) \/ Cond2(w, p) \/ Cond3(w, p, cfg, allTaint) \/ Cond4(w, cfg, allTaint)

\* a normal change directory: any changed file below it, or tainted imports
NormalDirTriggered(w, p, cd, allTaint) ==
    With(Join(FolderOf(w, p), cd.Path), LAMBDA fullDir :
        \/ \E f \in w.changedFiles : HasPrefix(f, fullDir \o Slash)
        \/ HasTaintedImports(w, fullDir, allTaint, NilConfig))

\* the loop over cfg.ChangeDirs; stops at the first normal trigger
RECURSIVE ChangeDirLoop(_, _, _, _, _)
ChangeDirLoop(w, p, dirs, allTaint, detections) ==
    IF dirs = <<>> THEN [normalTriggered |-> FALSE, detections |-> detections]
    ELSE With(Head(dirs), LAMBDA cd :
           With(IF cd.fineGrained
                THEN [stop |-> FALSE,
                      detections |->
                          detections \o FindAffectedFiles(w, p, cd.Path, allTaint, NilConfig, {},
                                                          w.includeTypes)]
                ELSE [stop |-> NormalDirTriggered(w, p, cd, allTaint),
                      detections |-> detections],
                LAMBDA next :
                  IF next.stop THEN [normalTriggered |-> TRUE, detections |-> detections]
                  ELSE ChangeDirLoop(w, p, Tail(dirs), allTaint, next.detections)))

Put(m, k, v) == [x \in DOMAIN m \cup {k} |-> IF x = k THEN v ELSE m[x]]

\* the detections are stored in the order the entries produced them
EvalProjectUnsorted(w, i, allTaint, e2e) ==
    With(w.projects[i].PackageName, LAMBDA p :
      With(LoadProjectConfig(w, p), LAMBDA cfg :
        IF IsTarget(cfg)
        THEN IF PassesFilter(w, p) /\ RegularTriggered(w, p, cfg, allTaint)
             THEN Put(e2e, p, <<>>) ELSE e2e
        ELSE IF IsVirtualTarget(cfg) /\ cfg.TargetName # None
        THEN IF ~PassesFilter(w, cfg.TargetName) THEN e2e
             ELSE With(ChangeDirLoop(w, p, cfg.ChangeDirs, allTaint, <<>>), LAMBDA vt :
                    IF vt.normalTriggered THEN Put(e2e, cfg.TargetName, <<>>)
                    ELSE IF Len(vt.detections) > 0
                         THEN Put(e2e, cfg.TargetName, vt.detections)
                    ELSE e2e)
        ELSE e2e))

\* one iteration of "for _, rp := range rushConfig.Projects": changedE2E
\* maps a target name to its detections (empty for a full run)
EvalProject(w, i, allTaint, e2e) ==
    With(w.projects[i].PackageName, LAMBDA p :
      With(LoadProjectConfig(w, p), LAMBDA cfg :
        IF IsTarget(cfg)
        THEN IF PassesFilter(w, p) /\ RegularTriggered(w, p, cfg, allTaint)
             THEN Put(e2e, p, <<>>) ELSE e2e
        ELSE IF IsVirtualTarget(cfg) /\ cfg.TargetName # None
        THEN IF ~PassesFilter(w, cfg.TargetName) THEN e2e
             ELSE With(ChangeDirLoop(w, p, cfg.ChangeDirs, allTaint, <<>>), LAMBDA vt :
                    IF vt.normalTriggered THEN Put(e2e, cfg.TargetName, <<>>)
                    ELSE IF Len(vt.detections) > 0
                         THEN Put(e2e, cfg.TargetName, SortStrings(vt.detections))
                    ELSE e2e)
        ELSE e2e))

RECURSIVE EvalTargets(_, _, _, _)
EvalTargets(w, i, allTaint, e2e) ==
    IF i > Len(w.projects) THEN e2e
    ELSE With(EvalProject(w, i, allTaint, e2e), LAMBDA next : EvalTargets(w, i + 1, allTaint, next))

\* the results in descending order of name
e2eListDescending(e2e) ==
    With(SortStrings(SetToSeq(DOMAIN e2e)), LAMBDA names :
        [i \in DOMAIN names |-> [Name |-> names[Len(names) + 1 - i],
                                 Detections |-> e2e[names[Len(names) + 1 - i]]]])

\* e2eList: the results sorted by name, as written to standard output
e2eList(e2e) ==
    With(SortStrings(SetToSeq(DOMAIN e2e)), LAMBDA names :
        [i \in DOMAIN names |-> [Name |-> names[i], Detections |-> e2e[names[i]]]])

OutputNames(out) == {out[i].Name : i \in DOMAIN out}

\* ------------------------------------------------------------------------
\* main: the level loop
\* ------------------------------------------------------------------------
IsLibrary(w, p) == w.pkg[p].isLib

FindEntrypoints(w, p) == w.pkg[p].entrypoints

\* the affected subgraph and its levels (main.go, before the loop)
AffectedSet(w) == FindTransitiveDependents(w, ChangedProjects(w))

Levels(w) == With(AffectedSet(w), LAMBDA affectedSet : TopologicalSort(w, affectedSet))

\* packages of a level that get a goroutine: libraries with entrypoints
Analyzed(w, p) == IsLibrary(w, p) /\ Len(FindEntrypoints(w, p)) > 0

\* pkgUpstreamTaint: the entries of the shared map whose specifier starts
\* with the name of one of the package's workspace dependencies
pkgUpstreamTaint(w, p, allTaint) ==
    [specifier \in {sp \in DOMAIN allTaint :
                       \E dep \in Range(DependsOn(w, p)) : HasPrefix(sp, dep)} |->
        allTaint[specifier]]

\* the goroutine logs the error and goes on with what the analysis returned
WorkerResultIgnoringError(w, p, snapshot) ==
    AnalyzeLibraryPackage(w, p, FindEntrypoints(w, p), w.includeTypes, snapshot,
                          Get(w.depChangedDeps, FolderOf(w, p)))

\* what the goroutine computes; an analysis error yields no result
WorkerResult(w, p, snapshot) ==
    IF p \in w.failing THEN <<>>
    ELSE AnalyzeLibraryPackage(w, p, FindEntrypoints(w, p), w.includeTypes, snapshot,
                               Get(w.depChangedDeps, FolderOf(w, p)))

Specifier(pkgName, entrypointPath) ==
    IF entrypointPath = <<".">> THEN pkgName
    ELSE pkgName \o TrimPrefix(entrypointPath, <<".">>)

\* merge of one pkgResult into the shared map
RECURSIVE MergeResult(_, _, _)
MergeResult(allTaint, pkgName, affected) ==
    IF affected = <<>> THEN allTaint
    ELSE With(AddAll(allTaint, Specifier(pkgName, Head(affected).EntrypointPath),
                     Range(Head(affected).ExportNames)),
              LAMBDA next : MergeResult(next, pkgName, Tail(affected)))

MergeResultOf(allTaint, result) == MergeResult(allTaint, result.pkgName, result.affected)

\* the goroutine writes its result into the shared map itself
DeliverResultDirect(ch, allTaint, result) ==
    [ch |-> ch, allTaint |-> MergeResultOf(allTaint, result)]

\* the goroutine sends only a non-empty result
DeliverResult(ch, allTaint, result) ==
    [ch |-> IF Len(result.affected) > 0 THEN Append(ch, result) ELSE ch, allTaint |-> allTaint]

\* the join fires as soon as the level was walked, goroutines still running
JoinReachedEarly(unwalked, started) == unwalked = {}

\* wg.Wait() returns: every package of the level was walked and every
\* goroutine has finished
JoinReached(unwalked, started) == unwalked = {} /\ DOMAIN started = {}

\* a whole level run to completion, workers taken one after the other
RECURSIVE RunLevel(_, _, _, _)
RunLevel(w, todo, snapshotOf, allTaint) ==
    IF todo = {} THEN allTaint
    ELSE With(CHOOSE x \in todo : TRUE, LAMBDA p :
           With(IF Analyzed(w, p)
                THEN With(pkgUpstreamTaint(w, p, snapshotOf),
                          LAMBDA snapshot : WorkerResult(w, p, snapshot))
                ELSE <<>>,
                LAMBDA result :
                  With(MergeResult(allTaint, p, result),
                       LAMBDA next : RunLevel(w, todo \ {p}, snapshotOf, next))))

\* the shared map after the first n levels
RECURSIVE TaintAfter(_, _, _)
TaintAfter(w, lvs, n) ==
    IF n = 0 THEN EmptyMap
    ELSE With(TaintAfter(w, lvs, n - 1), LAMBDA before : RunLevel(w, lvs[n], before, before))

\* the whole run, sequentially: the list written to standard output
RunOutput(w) ==
    With(Levels(w), LAMBDA lvs :
      With(TaintAfter(w, lvs, Len(lvs)), LAMBDA allTaint :
        With(CSSTaintStep(w, allTaint), LAMBDA taint :
          e2eList(EvalTargets(w, 1, taint, EmptyMap)))))

vars == <<ws, pc, levels, levelIdx, toSpawn, running, resultsCh, allUpstreamTaint,
          merged, snapSeen, ti, changedE2E, output, inp, res>>

\* ------------------------------------------------------------------------
\* A family of workspaces: three libraries whose workspace dependencies are
\* chosen freely (chains, diamonds, cycles), and a target that uses them
\* ------------------------------------------------------------------------
LibU == <<"u">>

LibM == <<"m">>

LibD == <<"d">>

TargetT == <<"t">>

Libs == {LibU, LibM, LibD}

\* the function a library exports from its entrypoint
Fn(p) == <<"fn", "_">> \o p

IndexFile == <<"src", "/", "index", ".ts">>

Folder(p) == <<"libs", "/">> \o p

SourcePath(p) == Folder(p) \o Slash \o IndexFile

NamedImport(source, name) ==
    [source |-> source, default |-> None, ns |-> None,
     named |-> <<[propertyName |-> None, name |-> name]>>]

DeclExport(name) ==
    [kind |-> "decl", name |-> name, isDefault |-> FALSE, source |-> None,
     specs |-> <<>>, typeOnly |-> FALSE]

RECURSIVE Calls(_)
Calls(names) == IF names = <<>> THEN <<>>
                ELSE Head(names) \o <<"(", ")", ";">> \o Calls(Tail(names))

\* "export function <name>() { <callee>(); ... return <version>; }"
FuncSymbol(name, callees, version) ==
    [Name |-> name, IsTypeOnly |-> FALSE,
     text |-> <<"export", " ", "function", " ">> \o name \o <<"(", ")", "{">>
              \o Calls(callees) \o <<"return", " ", version, "}">>,
     ranges |-> <<>>, pos |-> 0, hasStmt |-> TRUE]

\* a module that imports one function from each dependency and exports one
\* function calling them
ModuleFile(name, deps, version) ==
    [present |-> TRUE,
     importDecls |-> [i \in DOMAIN deps |-> NamedImport(deps[i], Fn(deps[i]))],
     exportDecls |-> <<DeclExport(name)>>,
     symbols |-> <<FuncSymbol(name, [i \in DOMAIN deps |-> Fn(deps[i])], version)>>]

WorkspaceVersion == <<"workspace:", "*">>

Manifest(isLib, deps) ==
    [isLib |-> isLib,
     dependencies |-> [d \in deps |-> WorkspaceVersion],
     devDependencies |-> EmptyMap,
     entrypoints |-> IF isLib THEN <<[ExportPath |-> <<".">>, SourceFile |-> IndexFile]>>
                     ELSE <<>>]

TargetConfig(app, ignores) ==
    [present |-> TRUE, Type |-> "target", App |-> app, TargetName |-> None,
     ChangeDirs |-> <<>>, Ignores |-> ignores]

\* graph[p] is the set of libraries p lists under "dependencies"
GraphWorkspace(graph, changed, failing) ==
    LET all == Libs \cup {TargetT}
        dep == [p \in all |-> IF p = TargetT THEN {LibD} ELSE graph[p]]
    IN [projects |-> <<[PackageName |-> LibU, ProjectFolder |-> Folder(LibU)],
                       [PackageName |-> LibM, ProjectFolder |-> Folder(LibM)],
                       [PackageName |-> LibD, ProjectFolder |-> Folder(LibD)],
                       [PackageName |-> TargetT, ProjectFolder |-> Folder(TargetT)]>>,
        pkg |-> [p \in all |-> Manifest(p \in Libs, dep[p])],
        files |-> [p \in all |-> [r \in {IndexFile} |->
                      ModuleFile(Fn(p), SetToSeq(dep[p]), "v1")]],
        old |-> [p \in all |-> [r \in {IndexFile} |->
                      ModuleFile(Fn(p), SetToSeq(dep[p]), "v0")]],
        styles |-> [p \in all |-> EmptyMap],
        cfg |-> [p \in all |-> IF p = TargetT THEN TargetConfig(None, <<>>) ELSE NilConfig],
        changedFiles |-> {SourcePath(p) : p \in changed},
        depChangedDeps |-> EmptyMap,
        includeTypes |-> FALSE, includeCSS |-> FALSE,
        targetPatterns |-> <<>>, failing |-> failing]

\* ------------------------------------------------------------------------
\* The orchestrator as a state machine
\* ------------------------------------------------------------------------
MaxChanged == 2

\* the dependency graphs tried: chains, diamonds, two- and three-package
\* cycles and a package that lists itself
Graphs ==
    {g \in [Libs -> SUBSET Libs] :
        /\ g[LibU] \in {{}, {LibM}, {LibD}}
        /\ g[LibM] \in {{}, {LibU}, {LibM}}
        /\ LibD \notin g[LibD]}

\* main has not read anything yet
Idle(w) ==
    /\ ws = w
    /\ pc = "start"
    /\ levels = <<>> /\ levelIdx = 0
    /\ toSpawn = {} /\ running = EmptyMap /\ resultsCh = <<>>
    /\ allUpstreamTaint = EmptyMap
    /\ merged = {} /\ snapSeen = EmptyMap
    /\ ti = 0 /\ changedE2E = EmptyMap /\ output = <<>>

Init ==
    \E graph \in Graphs, changed \in SUBSET Libs, failing \in {{}, {LibM}} :
        /\ Cardinality(changed) \in 1..MaxChanged
        /\ failing # {} => LibM \in changed
        /\ Idle(GraphWorkspace(graph, changed, failing))
        /\ inp = <<>>
        /\ res = <<>>

\* enter level n, or leave the loop after the last one
EnterLevel(n) ==
    /\ levelIdx' = n
    /\ IF n <= Len(levels')
       THEN pc' = "level" /\ toSpawn' = levels'[n]
       ELSE pc' = "css" /\ toSpawn' = {}

\* main.go up to the level loop
Start ==
    /\ pc = "start"
    /\ levels' = Levels(ws)
    /\ EnterLevel(1)
    /\ UNCHANGED <<ws, running, resultsCh, allUpstreamTaint, merged, snapSeen, ti,
                   changedE2E, output, inp, res>>

\* one iteration of "for _, pkgName := range level": skip the package, or
\* build its snapshot and start its goroutine
SpawnNext(p) ==
    /\ pc = "level"
    /\ p \in toSpawn
    /\ toSpawn' = toSpawn \ {p}
    /\ IF Analyzed(ws, p)
       THEN /\ running' = Put(running, p, pkgUpstreamTaint(ws, p, allUpstreamTaint))
            /\ snapSeen' = Put(snapSeen, p, merged)
       ELSE UNCHANGED <<running, snapSeen>>
    /\ UNCHANGED <<ws, pc, levels, levelIdx, resultsCh, allUpstreamTaint, merged, ti,
                   changedE2E, output, inp, res>>

\* a goroutine runs to its end
WorkerFinish(p) ==
    /\ p \in DOMAIN running
    /\ \E d \in {DeliverResult(resultsCh, allUpstreamTaint,
                              [pkgName |-> p, affected |-> WorkerResult(ws, p, running[p])])} :
          resultsCh' = d.ch /\ allUpstreamTaint' = d.allTaint
    /\ running' = [q \in DOMAIN running \ {p} |-> running[q]]
    /\ UNCHANGED <<ws, pc, levels, levelIdx, toSpawn, merged, snapSeen, ti, changedE2E,
                   output, inp, res>>

\* wg.Wait() returns and the channel is closed
WaitAll ==
    /\ pc = "level"
    /\ JoinReached(toSpawn, running)
    /\ pc' = "merge"
    /\ UNCHANGED <<ws, levels, levelIdx, toSpawn, running, resultsCh, allUpstreamTaint,
                   merged, snapSeen, ti, changedE2E, output, inp, res>>

\* one iteration of "for res := range resultsCh"
MergeOne ==
    /\ pc = "merge"
    /\ resultsCh # <<>>
    /\ allUpstreamTaint' = MergeResult(allUpstreamTaint, Head(resultsCh).pkgName,
                                       Head(resultsCh).affected)
    /\ resultsCh' = Tail(resultsCh)
    /\ UNCHANGED <<ws, pc, levels, levelIdx, toSpawn, running, merged, snapSeen, ti,
                   changedE2E, output, inp, res>>

\* the channel is drained: next level
NextLevel ==
    /\ pc = "merge"
    /\ resultsCh = <<>>
    /\ merged' = merged \cup levels[levelIdx]
    /\ levels' = levels
    /\ EnterLevel(levelIdx + 1)
    /\ UNCHANGED <<ws, running, resultsCh, allUpstreamTaint, snapSeen, ti, changedE2E,
                   output, inp, res>>

\* the INCLUDE_CSS step
CSSStep ==
    /\ pc = "css"
    /\ allUpstreamTaint' = CSSTaintStep(ws, allUpstreamTaint)
    /\ pc' = "targets"
    /\ ti' = 1
    /\ UNCHANGED <<ws, levels, levelIdx, toSpawn, running, resultsCh, merged, snapSeen,
                   changedE2E, output, inp, res>>

\* one iteration of the target loop
EvalTarget ==
    /\ pc = "targets"
    /\ ti <= Len(ws.projects)
    /\ changedE2E' = EvalProject(ws, ti, allUpstreamTaint, changedE2E)
    /\ ti' = ti + 1
    /\ UNCHANGED <<ws, pc, levels, levelIdx, toSpawn, running, resultsCh, allUpstreamTaint,
                   merged, snapSeen, output, inp, res>>

\* sort and print
Emit ==
    /\ pc = "targets"
    /\ ti > Len(ws.projects)
    /\ output' = e2eList(changedE2E)
    /\ pc' = "done"
    /\ UNCHANGED <<ws, levels, levelIdx, toSpawn, running, resultsCh, allUpstreamTaint,
                   merged, snapSeen, ti, changedE2E, inp, res>>

Next ==
    \/ Start
    \/ \E p \in toSpawn : SpawnNext(p)
    \/ \E p \in DOMAIN running : WorkerFinish(p)
    \/ WaitAll
    \/ MergeOne
    \/ NextLevel
    \/ CSSStep
    \/ EvalTarget
    \/ Emit

Spec == Init /\ [][Next]_vars

\* ------------------------------------------------------------------------
\* Claims about the level loop
\* ------------------------------------------------------------------------
\* C1: the shared upstream-taint map is never written while a goroutine of
\* the level is running -- a step that changes the map happens after the
\* join, with no goroutine left -- and a running goroutine keeps the
\* snapshot it was started with.
C1_WriteOnlyAfterJoin ==
    [][/\ allUpstreamTaint' # allUpstreamTaint =>
              DOMAIN running = {} /\ toSpawn = {} /\ pc \in {"merge", "css"}
       /\ \A p \in DOMAIN running \cap DOMAIN running' : running'[p] = running[p]]_vars

\* a goroutine still runs while a result waits in the channel and the map
\* already holds the taint of an earlier level
C1_Witness ==
    /\ pc = "level"
    /\ DOMAIN running # {}
    /\ resultsCh # <<>>
    /\ DOMAIN allUpstreamTaint # {}

\* affected libraries that D lists as workspace dependencies
UpstreamLibs(w, D) ==
    {U \in Range(DependsOn(w, D)) : U \in AffectedSet(w) /\ Analyzed(w, U)}

RECURSIVE DepClosure(_, _)
DepClosure(w, S) ==
    LET next == S \cup UNION {Range(DependsOn(w, p)) \cap AffectedSet(w) : p \in S}
    IN IF next = S THEN S ELSE DepClosure(w, next)

\* no affected package reaches itself through workspace dependencies
Acyclic(w) ==
    \A p \in AffectedSet(w) :
        p \notin DepClosure(w, Range(DependsOn(w, p)) \cap AffectedSet(w))

\* every upstream library of D was merged when D's snapshot was built
SnapshotsAfterUpstream ==
    \A D \in DOMAIN snapSeen : UpstreamLibs(ws, D) \subseteq snapSeen[D]

\* C2 as stated: for every affected library D and every affected library U
\* among D's workspace dependencies, U's result is merged before D's
\* snapshot is built, whatever the shape of the dependency graph.
C2_Original == SnapshotsAfterUpstream

\* C2, amended: the same, for workspaces whose affected packages have no
\* dependency cycle.
C2_TopologicalWhenAcyclic == Acyclic(ws) => SnapshotsAfterUpstream

C2_Witness ==
    /\ Acyclic(ws)
    /\ \E D \in DOMAIN snapSeen :
          /\ UpstreamLibs(ws, D) # {}
          /\ \E sp \in DOMAIN running : sp = D /\ DOMAIN running[D] # {}

\* C3: the map after each level and the printed list do not depend on the
\* order in which the packages of a level are walked, finish and deliver:
\* they equal what a run that takes the workers one after the other yields.
C3_Deterministic ==
    /\ (pc = "level" /\ toSpawn = levels[levelIdx])
          => allUpstreamTaint = TaintAfter(ws, levels, levelIdx - 1)
    /\ pc = "css" => allUpstreamTaint = TaintAfter(ws, levels, Len(levels))
    /\ pc = "done" => output = RunOutput(ws)

\* a finished run that had two goroutines in one level and printed a target
C3_Witness ==
    /\ pc = "done"
    /\ Len(output) > 0
    /\ \E n \in DOMAIN levels : Cardinality({p \in levels[n] : Analyzed(ws, p)}) >= 2

\* ------------------------------------------------------------------------
\* A workspace with targets: libraries u, m and d, an app, a regular target
\* and a project holding a virtual target
\*   libs/u      "."  -> src/index.ts (fn_u);  styles/main.scss
\*   libs/m      "."  -> src/index.ts (fn_m);  styles/m.scss  @import 'd/styles/d'
\*   libs/d      "."  -> src/index.ts (fn_d, calls fn_u)
\*               "./styles" -> src/styles.ts (x, y);  styles/d.scss  @use "u/styles/main"
\*   apps/app    src/main.ts (imports fn_d), README.md, config with ignores
\*   e2e/t       target; src/test.ts with one import, README.md
\*   e2e/vt      virtual target "v" watching scen/: scen/a.ts, scen/notes.md
\* ------------------------------------------------------------------------
App == <<"app">>

VtProject == <<"vt">>

VtName == <<"v">>

StylesSpecifier(p) == p \o <<"/", "styles">>

ProjectFolders ==
    <<[PackageName |-> LibU, ProjectFolder |-> <<"libs", "/", "u">>],
      [PackageName |-> LibM, ProjectFolder |-> <<"libs", "/", "m">>],
      [PackageName |-> LibD, ProjectFolder |-> <<"libs", "/", "d">>],
      [PackageName |-> App, ProjectFolder |-> <<"apps", "/", "app">>],
      [PackageName |-> TargetT, ProjectFolder |-> <<"e2e", "/", "t">>],
      [PackageName |-> VtProject, ProjectFolder |-> <<"e2e", "/", "vt">>]>>

StylesFile == <<"src", "/", "styles", ".ts">>

MainFile == <<"src", "/", "main", ".ts">>

TestFile == <<"src", "/", "test", ".ts">>

ScenFile == <<"scen", "/", "a", ".ts">>

ReadmeFile == <<"README", ".md">>

NotesFile == <<"scen", "/", "notes", ".md">>

MdIgnore == <<"**", "/", "*", ".md">>

ScenMdIgnore == <<"scen", "/", "**", "/", "*", ".md">>

\* the files a diff can name
ChangeUniverse ==
    {<<"libs", "/", "u">> \o Slash \o IndexFile,
     <<"libs", "/", "u", "/", "styles", "/", "main", ".scss">>,
     <<"libs", "/", "d">> \o Slash \o StylesFile,
     <<"apps", "/", "app">> \o Slash \o ReadmeFile,
     <<"apps", "/", "app">> \o Slash \o ConfigFileName,
     <<"e2e", "/", "t">> \o Slash \o ReadmeFile,
     <<"e2e", "/", "t">> \o Slash \o TestFile,
     <<"e2e", "/", "vt">> \o Slash \o NotesFile,
     <<"e2e", "/", "vt">> \o Slash \o ScenFile}

\* the diffs of the first run: nothing changed, or one file
BaseChanges == {{}} \cup {{f} : f \in ChangeUniverse}

\* the forms of the target's import that the runs go through
RunImports == {"none", "named", "alias", "fn", "css"}

\* the import of the target's test file
TargetImports ==
    [none   |-> <<>>,
     named  |-> <<NamedImport(StylesSpecifier(LibD), <<"x">>)>>,
     alias  |-> <<[source |-> StylesSpecifier(LibD), default |-> None, ns |-> None,
                   named |-> <<[propertyName |-> <<"y">>, name |-> <<"z">>]>>]>>,
     fn     |-> <<NamedImport(LibU, Fn(LibU))>>,
     css    |-> <<[source |-> <<"m", "/", "styles", "/", "m", ".css">>, default |-> None,
                   ns |-> None, named |-> <<>>]>>]

\* a module with the given imports and one function per name, all calling
\* the callees
PlainFile(imports, names, callees, version) ==
    [present |-> TRUE,
     importDecls |-> imports,
     exportDecls |-> [i \in DOMAIN names |-> DeclExport(names[i])],
     symbols |-> [i \in DOMAIN names |->
                     FuncSymbol(names[i], callees,
                                IF i = Len(names) THEN version ELSE "v1")]]

\* the source files of the workspace at a version of their last symbol
TargetFiles(c, version) ==
    [p \in {LibU, LibM, LibD, App, TargetT, VtProject} |->
        CASE p = LibU -> [r \in {IndexFile} |-> PlainFile(<<>>, <<Fn(LibU)>>, <<>>, version)]
          [] p = LibM -> [r \in {IndexFile} |-> PlainFile(<<>>, <<Fn(LibM)>>, <<>>, version)]
          [] p = LibD ->
                [r \in {IndexFile, StylesFile} |->
                    IF r = IndexFile
                    THEN PlainFile(<<NamedImport(LibU, Fn(LibU))>>, <<Fn(LibD)>>,
                                   <<Fn(LibU)>>, version)
                    ELSE PlainFile(<<>>, <<<<"x">>, <<"y">>>>, <<>>, version)]
          [] p = App ->
                [r \in {MainFile} |->
                    PlainFile(<<NamedImport(LibD, Fn(LibD))>>, <<<<"main">>>>,
                              <<Fn(LibD)>>, version)]
          [] p = TargetT ->
                [r \in {TestFile} |->
                    PlainFile(TargetImports[c.timport], <<<<"test">>>>, <<>>, version)]
          [] p = VtProject ->
                [r \in {ScenFile} |->
                    PlainFile(<<NamedImport(LibD, Fn(LibD))>>, <<<<"scenario">>>>,
                              <<Fn(LibD)>>, version)]]

ScssUse(keyword, quote, specifier) ==
    <<keyword, " ", quote>> \o specifier \o <<quote, ";">>

TargetStyles ==
    [p \in {LibU, LibM, LibD, App, TargetT, VtProject} |->
        CASE p = LibU -> [r \in {<<"styles", "/", "main", ".scss">>} |-> <<>>]
          [] p = LibM -> [r \in {<<"styles", "/", "m", ".scss">>} |->
                            <<ScssUse("@import", "'", <<"d", "/", "styles", "/", "d">>)>>]
          [] p = LibD -> [r \in {<<"styles", "/", "d", ".scss">>} |->
                            <<ScssUse("@use", "\"", <<"u", "/", "styles", "/", "main">>)>>]
          [] OTHER -> EmptyMap]

FolderIn(projects, p) ==
    projects[CHOOSE i \in DOMAIN projects : projects[i].PackageName = p].ProjectFolder

\* c: changed, css, timport, ignores, fine, app, lock
TargetWorkspace(c) ==
    LET all == {LibU, LibM, LibD, App, TargetT, VtProject}
        entry(path, file) == [ExportPath |-> path, SourceFile |-> file]
        manifest(isLib, deps, entrypoints) ==
            [isLib |-> isLib, dependencies |-> [d \in deps |-> WorkspaceVersion],
             devDependencies |-> EmptyMap, entrypoints |-> entrypoints]
    IN [projects |-> ProjectFolders,
        pkg |-> [p \in all |->
                    CASE p = LibU -> manifest(TRUE, {}, <<entry(<<".">>, IndexFile)>>)
                      [] p = LibM -> manifest(TRUE, {}, <<entry(<<".">>, IndexFile)>>)
                      [] p = LibD -> manifest(TRUE, {LibU},
                                              <<entry(<<".">>, IndexFile),
                                                entry(<<".", "/", "styles">>, StylesFile)>>)
                      [] p = App -> manifest(FALSE, {LibD}, <<>>)
                      [] p = TargetT -> manifest(FALSE, {LibU, LibM, LibD}, <<>>)
                      [] p = VtProject -> manifest(FALSE, {LibD}, <<>>)],
        files |-> TargetFiles(c, "v1"),
        old |-> TargetFiles(c, "v0"),
        styles |-> TargetStyles,
        cfg |-> [p \in all |->
                    CASE p = App ->
                            [present |-> TRUE, Type |-> "", App |-> None, TargetName |-> None,
                             ChangeDirs |-> <<>>, Ignores |-> <<MdIgnore>>]
                      [] p = TargetT ->
                            TargetConfig(IF c.app THEN App ELSE None,
                                         IF c.ignores THEN <<MdIgnore>> ELSE <<>>)
                      [] p = VtProject ->
                            [present |-> TRUE, Type |-> "virtual-target", App |-> None,
                             TargetName |-> VtName,
                             ChangeDirs |->
                                IF c.fine
                                THEN <<[Path |-> <<"scen", "/", "**", "/", "*">>,
                                        fineGrained |-> TRUE]>>
                                ELSE <<[Path |-> <<"scen">>, fineGrained |-> FALSE]>>,
                             Ignores |-> IF c.ignores THEN <<ScenMdIgnore>> ELSE <<>>]
                      [] OTHER -> NilConfig],
        changedFiles |-> c.changed,
        depChangedDeps |-> [f \in {FolderIn(ProjectFolders, p) : p \in c.lock} |->
                               {<<"lodash">>}],
        includeTypes |-> FALSE, includeCSS |-> c.css,
        targetPatterns |-> <<>>, failing |-> {}]

\* the same run with one more changed file
WithChanged(w, f) == [w EXCEPT !.changedFiles = @ \cup {f}]

\* two runs of the program: the workspace as it is, and with the additional
\* changed file inp
RunInit ==
    \E changed \in BaseChanges, extra \in ChangeUniverse,
       css \in BOOLEAN, timport \in RunImports, ignores \in BOOLEAN,
       fine \in BOOLEAN, app \in BOOLEAN, lock \in {{}, {App}} :
        /\ extra \notin changed
        /\ Idle(TargetWorkspace([changed |-> changed, css |-> css, timport |-> timport,
                                 ignores |-> ignores, fine |-> fine, app |-> app,
                                 lock |-> lock]))
        /\ inp = extra
        /\ res = <<>>

FirstRun ==
    /\ pc = "start"
    /\ res = <<>>
    /\ res' = <<RunOutput(ws)>>
    /\ UNCHANGED <<ws, pc, levels, levelIdx, toSpawn, running, resultsCh, allUpstreamTaint,
                   merged, snapSeen, ti, changedE2E, output, inp>>

SecondRun ==
    /\ pc = "start"
    /\ Len(res) = 1
    /\ res' = Append(res, RunOutput(WithChanged(ws, inp)))
    /\ UNCHANGED <<ws, pc, levels, levelIdx, toSpawn, running, resultsCh, allUpstreamTaint,
                   merged, snapSeen, ti, changedE2E, output, inp>>

RunNext == FirstRun \/ SecondRun

SpecRun == RunInit /\ [][RunNext]_vars

\* ------------------------------------------------------------------------
\* Claims about whole runs
\* ------------------------------------------------------------------------
\* C4: monotonicity -- when the second run differs from the first only by
\* one additional changed file, every target name the first run prints is
\* also printed by the second.
C4_Monotone == Len(res) = 2 => OutputNames(res[1]) \subseteq OutputNames(res[2])

\* the name under which a project's target is printed
TargetNameOf(w, p) ==
    IF IsTarget(LoadProjectConfig(w, p)) THEN p ELSE LoadProjectConfig(w, p).TargetName

IsAnyTarget(w, p) ==
    \/ IsTarget(LoadProjectConfig(w, p))
    \/ IsVirtualTarget(LoadProjectConfig(w, p)) /\ LoadProjectConfig(w, p).TargetName # None

\* the diff names exactly one file; it lies under p and p's config ignores it
OnlyIgnoredChange(w, p) ==
    /\ DOMAIN w.depChangedDeps = {}
    /\ \E f \in w.changedFiles :
          /\ w.changedFiles = {f}
          /\ HasPrefix(f, FolderOf(w, p) \o Slash)
          /\ IsIgnored(LoadProjectConfig(w, p), TrimPrefix(f, FolderOf(w, p) \o Slash))

\* C5: ignore dominance -- when the only changed file lies under a target's
\* project and matches an ignore glob of that target, the target is not
\* printed (regular targets, virtual targets coarse and fine-grained).
C5_IgnoreDominance ==
    Len(res) >= 1 =>
        \A p \in PackageNames(ws) :
            (IsAnyTarget(ws, p) /\ OnlyIgnoredChange(ws, p))
                => TargetNameOf(ws, p) \notin OutputNames(res[1])

\* the shared map when target detection starts
FinalTaint(w) == CSSTaintStep(w, TaintAfter(w, Levels(w), Len(Levels(w))))

\* a style file of package U is among the changed files
StyleChanged(w, U) ==
    \E f \in w.changedFiles : Ext(f) \in StyleExts /\ HasPrefix(f, FolderOf(w, U) \o Slash)

\* a style file of D has @use or @import of U or of U/...
ScssRefers(w, D, U) ==
    \E sf \in globStyleFiles(w, FolderOf(w, D)) :
        \E useSpec \in parseScssUses(sf.data) : useSpec = U \/ HasPrefix(useSpec, U \o Slash)

\* the packages reached from U through chains of such references
RECURSIVE ScssDownstream(_, _)
ScssDownstream(w, S) ==
    LET next == S \cup {D \in PackageNames(w) : \E U \in S : ScssRefers(w, D, U)}
    IN IF next = S THEN S ELSE ScssDownstream(w, next)

\* a non-ignored source file of P imports a style path D/...
ImportsStylePathOf(w, P, D) ==
    \E f \in globSourceFiles(w, FolderOf(w, P)) :
        /\ ~IsIgnored(LoadProjectConfig(w, P), f.rel)
        /\ \E imp \in Range(Imports(f.data)) :
              isStyleImport(imp.Source) /\ HasPrefix(imp.Source, D \o Slash)

CSSTransitive(w, out) ==
    w.includeCSS =>
        \A U \in PackageNames(w) :
            StyleChanged(w, U) =>
                \A D \in ScssDownstream(w, {U}) \ {U} :
                    /\ CSSTaintPrefix \o D \in DOMAIN FinalTaint(w)
                    /\ \A P \in PackageNames(w) :
                          (IsTarget(LoadProjectConfig(w, P)) /\ ImportsStylePathOf(w, P, D))
                              => P \in OutputNames(out)

\* C8: CSS transitivity -- with INCLUDE_CSS, when a style file of U changed
\* and D's SCSS refers to U (directly or through a chain), D is CSS-tainted
\* after the propagator and every target with a non-ignored source file
\* importing a style path D/... is printed.
C8_CSSTransitivity ==
    /\ Len(res) >= 1 => CSSTransitive(ws, res[1])
    /\ Len(res) = 2 => CSSTransitive(WithChanged(ws, inp), res[2])

\* conditions (1)-(3) of the claim for a project, under its own config
ClaimConditions(w, X) ==
    \/ Cond1(w, X, LoadProjectConfig(w, X))
    \/ Cond2(w, X)
    \/ Cond3(w, X, LoadProjectConfig(w, X), FinalTaint(w))

RegularTargetIff(w, out) ==
    \A P \in PackageNames(w) :
        IsTarget(LoadProjectConfig(w, P)) =>
            (P \in OutputNames(out)
                <=> \/ ClaimConditions(w, P)
                    \/ /\ LoadProjectConfig(w, P).App \in PackageNames(w)
                       /\ ClaimConditions(w, LoadProjectConfig(w, P).App))

\* C9: a regular target P is printed if and only if (1) a non-ignored
\* changed file lies under P, or (2) P has a lockfile-affected dependency,
\* or (3) a non-ignored source file of P imports a tainted upstream
\* specifier, or (4) P names an app A and one of (1)-(3) holds for A.
C9_RegularTargetIff ==
    /\ Len(res) >= 1 => RegularTargetIff(ws, res[1])
    /\ Len(res) = 2 => RegularTargetIff(WithChanged(ws, inp), res[2])

\* ------------------------------------------------------------------------
\* HasTaintedImports on its own: one folder with one source file holding
\* one import declaration, and an upstream-taint map
\* ------------------------------------------------------------------------
Foo == <<"foo">>

Bar == <<"bar">>

Default == <<"default">>

ImportForms ==
    [named     |-> [default |-> None, ns |-> None,
                    named |-> <<[propertyName |-> None, name |-> Foo]>>],
     alias     |-> [default |-> None, ns |-> None,
                    named |-> <<[propertyName |-> Foo, name |-> <<"f">>]>>],
     other     |-> [default |-> None, ns |-> None,
                    named |-> <<[propertyName |-> None, name |-> Bar]>>],
     dflt      |-> [default |-> <<"Widget">>, ns |-> None, named |-> <<>>],
     namespace |-> [default |-> None, ns |-> <<"ns">>, named |-> <<>>],
     side      |-> [default |-> None, ns |-> None, named |-> <<>>]]

ImportSources == {LibU, StylesSpecifier(LibU), <<"./", "local">>}

ImportDecl(form, source) ==
    [source |-> source, default |-> ImportForms[form].default, ns |-> ImportForms[form].ns,
     named |-> ImportForms[form].named]

\* the tainted-name sets an upstream specifier can have
TaintSets == {{}, {Foo}, {Default}, {Bar}}

\* a map with an optional entry for a specifier and an optional CSS entry
TaintMap(specifier, hasKey, names, cssPkg) ==
    LET m == IF hasKey THEN AddAll(EmptyMap, specifier, names) ELSE EmptyMap
    IN IF cssPkg THEN AddAll(m, CSSTaintPrefix \o LibU, {Star}) ELSE m

ImportWorkspace(decl, css, ignores) ==
    [projects |-> <<[PackageName |-> TargetT, ProjectFolder |-> <<"e2e", "/", "t">>]>>,
     pkg |-> [p \in {TargetT} |-> Manifest(FALSE, {})],
     files |-> [p \in {TargetT} |-> [r \in {TestFile} |->
                   PlainFile(<<decl>>, <<<<"test">>>>, <<>>, "v1")]],
     old |-> [p \in {TargetT} |-> EmptyMap],
     styles |-> [p \in {TargetT} |-> EmptyMap],
     cfg |-> [p \in {TargetT} |-> TargetConfig(None, ignores)],
     changedFiles |-> {}, depChangedDeps |-> EmptyMap,
     includeTypes |-> FALSE, includeCSS |-> css, targetPatterns |-> <<>>, failing |-> {}]

ImportsInit ==
    \E form \in DOMAIN ImportForms, source \in ImportSources, key \in {LibU, StylesSpecifier(LibU)},
       hasKey \in BOOLEAN, names \in TaintSets, cssPkg \in BOOLEAN, css \in BOOLEAN,
       ignored \in BOOLEAN :
        /\ Idle(ImportWorkspace(ImportDecl(form, source), css,
                                IF ignored THEN <<<<"src", "/", "**">>>> ELSE <<>>))
        /\ inp = TaintMap(key, hasKey, names, cssPkg)
        /\ res = <<>>

CallHasTaintedImports ==
    /\ res = <<>>
    /\ res' = <<HasTaintedImports(ws, FolderOf(ws, TargetT), inp, LoadProjectConfig(ws, TargetT))>>
    /\ UNCHANGED <<ws, pc, levels, levelIdx, toSpawn, running, resultsCh, allUpstreamTaint,
                   merged, snapSeen, ti, changedE2E, output, inp>>

SpecImports == ImportsInit /\ [][CallHasTaintedImports]_vars

\* the export names an import declaration binds
BoundExports(decl) ==
    {IF decl.named[i].propertyName # None THEN decl.named[i].propertyName
     ELSE decl.named[i].name : i \in DOMAIN decl.named}
    \cup (IF decl.default # None THEN {Default} ELSE {})

\* the right-hand side of C10 for one import declaration
DeclIsTainted(w, decl, upstreamTaint) ==
    /\ ~IsRelative(decl.source)
    /\ \/ /\ Get(upstreamTaint, decl.source) # {}
          /\ \/ decl.default = None /\ decl.ns = None /\ decl.named = <<>>
             \/ decl.ns # None
             \/ BoundExports(decl) \cap Get(upstreamTaint, decl.source) # {}
       \/ w.includeCSS /\ matchesCSSTaint(decl.source, upstreamTaint)

ExpectTainted(w, folder, upstreamTaint, ignoreCfg) ==
    \E f \in globSourceFiles(w, folder) :
        /\ ~IsIgnored(ignoreCfg, f.rel)
        /\ \E i \in DOMAIN f.data.importDecls :
              DeclIsTainted(w, f.data.importDecls[i], upstreamTaint)

\* C10: HasTaintedImports is true exactly when a non-ignored source file
\* has a non-relative import of a specifier with a non-empty tainted set
\* that is a side-effect import, a namespace import or binds a tainted
\* export name (own name, alias or default), or, with CSS enabled, matches
\* a CSS-tainted package.
C10_TaintedImportsIff ==
    Len(res) = 1 =>
        (res[1] <=> ExpectTainted(ws, FolderOf(ws, TargetT), inp, LoadProjectConfig(ws, TargetT)))

\* ------------------------------------------------------------------------
\* AnalyzeLibraryPackage on its own: library d whose entrypoint re-exports
\* or uses an upstream package in different ways
\* ------------------------------------------------------------------------
SymX == <<"X">>

SymY == <<"Y">>

InnerFile == <<"src", "/", "inner", ".ts">>

StarExport(source) ==
    [kind |-> "star", name |-> None, isDefault |-> FALSE, source |-> source,
     specs |-> <<>>, typeOnly |-> FALSE]

NamedExport(name, source) ==
    [kind |-> "named", name |-> None, isDefault |-> FALSE, source |-> source,
     specs |-> <<[name |-> name, propertyName |-> None, typeOnly |-> FALSE]>>,
     typeOnly |-> FALSE]

NoSymbols(imports, exports) ==
    [present |-> TRUE, importDecls |-> imports, exportDecls |-> exports, symbols |-> <<>>]

\* src/index.ts of d for each form; "starRel" goes through src/inner.ts
EntryFiles(form, upstream) ==
    LET inner == PlainFile(<<NamedImport(upstream, SymX)>>, <<<<"useX">>>>, <<SymX>>, "v1")
    IN [r \in {IndexFile, InnerFile} |->
          IF r = InnerFile THEN inner
          ELSE CASE form = "star" -> NoSymbols(<<>>, <<StarExport(upstream)>>)
                 [] form = "starRel" -> NoSymbols(<<>>, <<StarExport(<<"./", "inner">>)>>)
                 [] form = "named" -> NoSymbols(<<>>, <<NamedExport(SymX, upstream)>>)
                 [] form = "importExport" ->
                        NoSymbols(<<NamedImport(upstream, SymX)>>, <<NamedExport(SymX, None)>>)
                 [] form = "wrapper" ->
                        PlainFile(<<NamedImport(upstream, SymX)>>, <<<<"wrap">>>>,
                                  <<SymX>>, "v1")]

PkgWorkspace(form, upstream, includeTypes) ==
    [projects |-> <<[PackageName |-> LibD, ProjectFolder |-> <<"libs", "/", "d">>]>>,
     pkg |-> [p \in {LibD} |-> Manifest(TRUE, {})],
     files |-> [p \in {LibD} |-> EntryFiles(form, upstream)],
     old |-> [p \in {LibD} |-> EntryFiles(form, upstream)],
     styles |-> [p \in {LibD} |-> EmptyMap],
     cfg |-> [p \in {LibD} |-> NilConfig],
     changedFiles |-> {}, depChangedDeps |-> EmptyMap,
     includeTypes |-> includeTypes, includeCSS |-> FALSE, targetPatterns |-> <<>>,
     failing |-> {}]

PkgInit ==
    \E form \in {"star", "starRel", "named", "importExport", "wrapper"},
       upstream \in {LibU, LibU \o <<"/", "sub">>}, key \in {LibU, LibU \o <<"/", "sub">>},
       names \in SUBSET {SymX, SymY}, includeTypes \in BOOLEAN :
        /\ Idle(PkgWorkspace(form, upstream, includeTypes))
        /\ inp = AddAll(EmptyMap, key, names)
        /\ res = <<>>

CallAnalyzeLibraryPackage ==
    /\ res = <<>>
    /\ res' = <<AnalyzeLibraryPackage(ws, LibD, FindEntrypoints(ws, LibD), ws.includeTypes,
                                      inp, {})>>
    /\ UNCHANGED <<ws, pc, levels, levelIdx, toSpawn, running, resultsCh, allUpstreamTaint,
                   merged, snapSeen, ti, changedE2E, output, inp>>

SpecPkg == PkgInit /\ [][CallAnalyzeLibraryPackage]_vars

\* the names returned for an entrypoint
ExportNamesFor(affected, path) ==
    UNION {Range(affected[i].ExportNames) :
              i \in {j \in DOMAIN affected : affected[j].EntrypointPath = path}}

\* the upstream specifiers an entrypoint file re-exports with "export *"
StarSources(w, p, ep) ==
    {e.Source : e \in {x \in Range(Exports(w.files[p][ep.SourceFile])) :
                          x.IsStar /\ x.Source # None /\ ~IsRelative(x.Source)}}

\* C7: star re-export transparency -- when an entrypoint file of D has
\* "export * from U" and U has affected exports at that specifier, the
\* set returned for that entrypoint includes all of them.
C7_StarReexport ==
    Len(res) = 1 =>
        \A ep \in Range(FindEntrypoints(ws, LibD)) :
            \A src \in StarSources(ws, LibD, ep) :
                Get(inp, src) \subseteq ExportNamesFor(res[1], ep.ExportPath)

\* ------------------------------------------------------------------------
\* The AST differ on its own: a file with a typed variable, a typed
\* function, an interface and (optionally) an anonymous default export
\*   const f: (a: P) => R = INIT;         ranges: annotation of f, of a
\*   function k(a: number): R { return 1 }  ranges: type of a, return type
\*   interface I { a: T }
\*   export default function (a: T) {}    no entry in the statement map
\* ------------------------------------------------------------------------
MaxOffset == 1

Ranges(pos, rs) == [i \in DOMAIN rs |-> <<pos + rs[i][1], pos + rs[i][2]>>]

VarSymbol(pos, paramT, retT, init) ==
    [Name |-> <<"f">>, IsTypeOnly |-> FALSE,
     text |-> <<"const", " ", "f", ":", " ", "(", "a", ":", " ", paramT, ")", " ", "=>", " ",
                retT, " ", "=", " ", init, ";">>,
     ranges |-> Ranges(pos, <<<<3, 15>>, <<7, 10>>>>), pos |-> pos, hasStmt |-> TRUE]

FuncTypedSymbol(pos, retT) ==
    [Name |-> <<"k">>, IsTypeOnly |-> FALSE,
     text |-> <<"function", " ", "k", "(", "a", ":", " ", "number", ")", ":", " ", retT, " ",
                "{", "return", " ", "1", "}">>,
     ranges |-> Ranges(pos, <<<<5, 8>>, <<8, 12>>>>), pos |-> pos, hasStmt |-> TRUE]

InterfaceSymbol(pos, fieldT) ==
    [Name |-> <<"I">>, IsTypeOnly |-> TRUE,
     text |-> <<"interface", " ", "I", "{", "a", ":", " ", fieldT, "}">>,
     ranges |-> <<>>, pos |-> pos, hasStmt |-> TRUE]

DefaultSymbol(pos, paramT) ==
    [Name |-> Default, IsTypeOnly |-> FALSE,
     text |-> <<"export", " ", "default", " ", "function", " ", "(", "a", ":", " ", paramT,
                ")", "{", "}">>,
     ranges |-> Ranges(pos, <<<<8, 11>>>>), pos |-> pos, hasStmt |-> FALSE]

DiffFile(pos, paramT, retT, init, kRetT, fieldT, dflt) ==
    [present |-> TRUE, importDecls |-> <<>>, exportDecls |-> <<>>,
     symbols |-> <<VarSymbol(pos, paramT, retT, init), FuncTypedSymbol(pos + 30, kRetT),
                   InterfaceSymbol(pos + 60, fieldT)>>
                 \o (IF dflt = "" THEN <<>> ELSE <<DefaultSymbol(pos + 90, dflt)>>)]

DiffInit ==
    \E pos \in 0..MaxOffset, paramT \in {"number", "string"}, retT \in {"void", "string"},
       init \in {"g", "h"}, kRetT \in {"void", "string"}, fieldT \in {"number", "string"},
       dflt \in {<<"", "">>, <<"number", "number">>, <<"number", "string">>},
       includeTypes \in BOOLEAN :
        /\ Idle(PkgWorkspace("star", LibU, includeTypes))
        /\ inp = [old |-> DiffFile(0, "number", "void", "g", "void", "number", dflt[1]),
                  new |-> DiffFile(pos, paramT, retT, init, kRetT, fieldT, dflt[2]),
                  includeTypes |-> includeTypes]
        /\ res = <<>>

CallDiff ==
    /\ res = <<>>
    /\ res' = <<findAffectedSymbolsByASTDiff(inp.old, inp.new, inp.includeTypes)>>
    /\ UNCHANGED <<ws, pc, levels, levelIdx, toSpawn, running, resultsCh, allUpstreamTaint,
                   merged, snapSeen, ti, changedE2E, output, inp>>

SpecDiff == DiffInit /\ [][CallDiff]_vars

\* the runtime-only projection: the statement without the tokens that lie
\* in a type-only range
EraseTypes(sym) ==
    LET keep == {i \in DOMAIN sym.text :
                    ~\E j \in DOMAIN sym.ranges :
                        sym.ranges[j][1] - sym.pos < i /\ i <= sym.ranges[j][2] - sym.pos}
        RECURSIVE pick(_)
        pick(i) == IF i > Len(sym.text) THEN <<>>
                   ELSE (IF i \in keep THEN <<sym.text[i]>> ELSE <<>>) \o pick(i + 1)
    IN normalizeWhitespace(pick(1))

\* every changed symbol is type-only or keeps its runtime-only projection
OnlyTypesChanged(old, new) ==
    \A i \in DOMAIN new.symbols :
        LET sym == new.symbols[i]
        IN /\ sym.Name \in SymbolNames(old)
           /\ \/ normalizeWhitespace(sym.text)
                    = normalizeWhitespace(LastSymbol(old.symbols, sym.Name).text)
              \/ sym.IsTypeOnly
              \/ EraseTypes(sym) = EraseTypes(LastSymbol(old.symbols, sym.Name))

\* C6: type-only isolation -- with includeTypes off, when every changed
\* symbol is an interface/type alias or a runtime symbol whose runtime-only
\* projection is unchanged, the differ reports no affected symbol.
C6_TypeOnlyIsolation ==
    (Len(res) = 1 /\ ~inp.includeTypes /\ OnlyTypesChanged(inp.old, inp.new)) => res[1] = {}

\* ------------------------------------------------------------------------
\* A side-effect import across packages: library u gets the entrypoint
\* "./setup" -> src/setup.ts, and the target's test file has
\* `import "u/setup";`
\*   exported : export function init() { return <version>; }
\*   private  : function init() { return <version>; }            (no export)
\*   used     : export function ready() { init(); ... }  function init() {...}
\*   unused   : export function ready() { ... }          function init() {...}
\* ------------------------------------------------------------------------
SetupFile == <<"src", "/", "setup", ".ts">>

SetupSpecifier == LibU \o <<"/", "setup">>

SetupPath == <<"libs", "/", "u">> \o Slash \o SetupFile

SideEffectImport(source) == [source |-> source, default |-> None, ns |-> None, named |-> <<>>]

InitName == <<"init">>

ReadyName == <<"ready">>

\* "function <name>() { return <version>; }", not exported
PrivateSymbol(name, version) ==
    [Name |-> name, IsTypeOnly |-> FALSE,
     text |-> <<"function", " ">> \o name \o <<"(", ")", "{", "return", " ", version, "}">>,
     ranges |-> <<>>, pos |-> 0, hasStmt |-> TRUE]

SetupForms == {"exported", "private", "used", "unused"}

SetupSource(form, version) ==
    [present |-> TRUE,
     importDecls |-> <<>>,
     exportDecls |-> CASE form = "exported" -> <<DeclExport(InitName)>>
                       [] form = "private" -> <<>>
                       [] OTHER -> <<DeclExport(ReadyName)>>,
     symbols |-> CASE form = "exported" -> <<FuncSymbol(InitName, <<>>, version)>>
                   [] form = "private" -> <<PrivateSymbol(InitName, version)>>
                   [] form = "used" -> <<FuncSymbol(ReadyName, <<InitName>>, "v1"),
                                         PrivateSymbol(InitName, version)>>
                   [] OTHER -> <<FuncSymbol(ReadyName, <<>>, "v1"),
                                 PrivateSymbol(InitName, version)>>]

\* the workspace of the runs with the setup entrypoint added to u and the
\* bare import in the target
SideWorkspace(form, changed, ignores, app) ==
    With(TargetWorkspace([changed |-> changed, css |-> FALSE, timport |-> "none",
                          ignores |-> ignores, fine |-> FALSE, app |-> app, lock |-> {}]),
         LAMBDA w :
           [w EXCEPT
              !.pkg[LibU].entrypoints =
                  @ \o <<[ExportPath |-> <<".", "/", "setup">>, SourceFile |-> SetupFile]>>,
              !.files[LibU] = [r \in {IndexFile, SetupFile} |->
                                  IF r = IndexFile THEN @[IndexFile]
                                  ELSE SetupSource(form, "v1")],
              !.old[LibU] = [r \in {IndexFile, SetupFile} |->
                                  IF r = IndexFile THEN @[IndexFile]
                                  ELSE SetupSource(form, "v0")],
              !.files[TargetT] = [r \in {TestFile} |->
                                     PlainFile(<<SideEffectImport(SetupSpecifier)>>,
                                               <<<<"test">>>>, <<>>, "v1")],
              !.old[TargetT] = [r \in {TestFile} |->
                                     PlainFile(<<SideEffectImport(SetupSpecifier)>>,
                                               <<<<"test">>>>, <<>>, "v1")]])

SideInit ==
    \E form \in SetupForms, setup \in BOOLEAN, extra \in BaseChanges,
       ignores \in BOOLEAN, app \in BOOLEAN :
        /\ Idle(SideWorkspace(form, (IF setup THEN {SetupPath} ELSE {}) \cup extra,
                              ignores, app))
        /\ inp = form
        /\ res = <<>>

SpecSide == SideInit /\ [][FirstRun]_vars

\* a symbol declared in the file has a runtime change between the merge
\* base and the working tree
HasRuntimeChange(w, p, rel) ==
    /\ FolderOf(w, p) \o Slash \o rel \in w.changedFiles
    /\ \E i \in DOMAIN w.files[p][rel].symbols :
          \E j \in DOMAIN w.old[p][rel].symbols :
             /\ w.files[p][rel].symbols[i].Name = w.old[p][rel].symbols[j].Name
             /\ ~w.files[p][rel].symbols[i].IsTypeOnly
             /\ extractRuntimeText(w.files[p][rel].symbols[i])
                  # extractRuntimeText(w.old[p][rel].symbols[j])

\* a source file of the project has a bare import of the specifier
HasBareImport(w, p, specifier) ==
    \E rel \in DOMAIN w.files[p] :
        \E i \in DOMAIN w.files[p][rel].importDecls :
            w.files[p][rel].importDecls[i] = SideEffectImport(specifier)

\* C11: when a source file of target t has the bare import "u/setup" and a
\* symbol declared in the entrypoint's source file src/setup.ts has a
\* runtime change, exported or not, then t is in the output.
C11_SideEffectImport ==
    (Len(res) = 1 /\ HasBareImport(ws, TargetT, SetupSpecifier)
                  /\ HasRuntimeChange(ws, LibU, SetupFile))
        => TargetT \in OutputNames(res[1])

\* ------------------------------------------------------------------------
\* Virtual targets with several changeDirs: project e2e/vt holds
\*   scen/a.ts (imports fn_d), scen/notes.md and src/b.ts (no imports)
\* and its config lists up to MaxDirs entries, coarse or fine-grained
\* ------------------------------------------------------------------------
MaxDirs == 2

HelperFile == <<"src", "/", "b", ".ts">>

VtFolder == <<"e2e", "/", "vt">>

DirEntries ==
    {[Path |-> <<"scen">>, fineGrained |-> FALSE],
     [Path |-> <<"src">>, fineGrained |-> FALSE],
     [Path |-> <<"scen", "/", "**", "/", "*">>, fineGrained |-> TRUE],
     [Path |-> <<"src", "/", "**", "/", "*">>, fineGrained |-> TRUE]}

DirLists == UNION {[1..n -> DirEntries] : n \in 1..MaxDirs}

VtChanges ==
    SUBSET {<<"libs", "/", "u">> \o Slash \o IndexFile,
            VtFolder \o Slash \o ScenFile,
            VtFolder \o Slash \o HelperFile,
            VtFolder \o Slash \o NotesFile}

VtFilesAt(version) ==
    [r \in {ScenFile, HelperFile} |->
        IF r = ScenFile
        THEN PlainFile(<<NamedImport(LibD, Fn(LibD))>>, <<<<"scenario">>>>, <<Fn(LibD)>>, version)
        ELSE PlainFile(<<>>, <<<<"helper">>>>, <<>>, version)]

VtWorkspace(dirs, changed) ==
    With(TargetWorkspace([changed |-> changed, css |-> FALSE, timport |-> "none",
                          ignores |-> FALSE, fine |-> FALSE, app |-> FALSE, lock |-> {}]),
         LAMBDA w :
           [w EXCEPT !.files[VtProject] = VtFilesAt("v1"),
                     !.old[VtProject] = VtFilesAt("v0"),
                     !.cfg[VtProject].ChangeDirs = dirs])

VtInit ==
    \E dirs \in DirLists, changed \in VtChanges :
        /\ Idle(VtWorkspace(dirs, changed))
        /\ inp = <<>>
        /\ res = <<>>

SpecVt == VtInit /\ [][FirstRun]_vars

\* the changeDirs of the virtual target's project
VtDirs(w) == LoadProjectConfig(w, VtProject).ChangeDirs

\* what a fine-grained entry returns
FineHits(w, cd) ==
    FindAffectedFiles(w, VtProject, cd.Path, FinalTaint(w), NilConfig, {}, w.includeTypes)

\* the results of all fine-grained entries, one after the other
AllFineHits(w) ==
    FlattenSeq([i \in DOMAIN VtDirs(w) |->
                   IF VtDirs(w)[i].fineGrained THEN FineHits(w, VtDirs(w)[i]) ELSE <<>>])

\* a coarse entry fires
CoarseHit(w) ==
    \E i \in DOMAIN VtDirs(w) :
        ~VtDirs(w)[i].fineGrained /\ NormalDirTriggered(w, VtProject, VtDirs(w)[i], FinalTaint(w))

Occurrences(s, x) == Cardinality({i \in DOMAIN s : s[i] = x})

\* s is t in ascending order
IsSortedListOf(s, t) ==
    /\ Len(s) = Len(t)
    /\ \A x \in Range(s) \cup Range(t) : Occurrences(s, x) = Occurrences(t, x)
    /\ \A i \in 1..(Len(s) - 1) : ~LessStr(s[i + 1], s[i])

\* the output has exactly one entry for the name, with these detections
EmittedWith(out, name, P(_)) ==
    /\ Cardinality({k \in DOMAIN out : out[k].Name = name}) = 1
    /\ \A k \in DOMAIN out : out[k].Name = name => P(out[k].Detections)

\* C12 as stated: a virtual target with a fine-grained hit is emitted with
\* the sorted file list as detections, for every combination of coarse and
\* fine-grained entries; without a fine-grained hit it is emitted with its
\* name only.
C12_Original ==
    Len(res) = 1 =>
        IF AllFineHits(ws) # <<>>
        THEN EmittedWith(res[1], VtName, LAMBDA d : IsSortedListOf(d, AllFineHits(ws)))
        ELSE \A k \in DOMAIN res[1] : res[1][k].Name = VtName => res[1][k].Detections = <<>>

\* C12 (amended): a virtual target none of whose coarse entries fires and
\* with a fine-grained hit is emitted with the sorted file list of all its
\* fine-grained entries as detections; when a coarse entry fires it is
\* emitted with its name only, whatever the fine-grained entries returned;
\* otherwise it is not emitted.
C12_DetectionsUnlessCoarse ==
    Len(res) = 1 =>
        IF CoarseHit(ws)
        THEN EmittedWith(res[1], VtName, LAMBDA d : d = <<>>)
        ELSE IF AllFineHits(ws) # <<>>
        THEN EmittedWith(res[1], VtName, LAMBDA d : IsSortedListOf(d, AllFineHits(ws)))
        ELSE VtName \notin OutputNames(res[1])

\* two fine-grained entries with one hit each, found in descending order,
\* and no coarse entry firing
C12_Witness ==
    /\ Len(res) = 1
    /\ ~CoarseHit(ws)
    /\ Len(AllFineHits(ws)) = 2
    /\ LessStr(AllFineHits(ws)[2], AllFineHits(ws)[1])
    /\ EmittedWith(res[1], VtName, LAMBDA d : Len(d) = 2)

\* ------------------------------------------------------------------------
\* Claims about a failing analysis (library m's AnalyzeLibraryPackage
\* returns an error)
\* ------------------------------------------------------------------------
\* the scheduler keeps running whatever can run: main and the goroutines
SpecFair == Spec /\ WF_vars(Next)

\* the specifiers of a package: its name and its name followed by a subpath
OwnSpecifier(sp, p) == sp = p \/ HasPrefix(sp, p \o Slash)

\* nothing of a failing library is in the channel or in the shared map
NothingFromFailing ==
    \A p \in ws.failing :
        /\ \A sp \in DOMAIN allUpstreamTaint : ~OwnSpecifier(sp, p)
        /\ \A i \in DOMAIN resultsCh : resultsCh[i].pkgName # p

\* levels whose merge loop has ended
CompletedLevels ==
    IF pc \in {"css", "targets", "done"} THEN DOMAIN levels
    ELSE IF pc \in {"level", "merge"} THEN 1..(levelIdx - 1)
    ELSE {}

\* what library p of level n exports as affected, given the map as it was
\* when level n started
ResultOf(w, lvs, n, p) ==
    WorkerResult(w, p, pkgUpstreamTaint(w, p, TaintAfter(w, lvs, n - 1)))

\* the result of every library that did not fail is in the shared map once
\* its level is completed
OthersMerged ==
    \A n \in CompletedLevels :
        \A p \in levels[n] :
            (Analyzed(ws, p) /\ p \notin ws.failing) =>
                \A ae \in Range(ResultOf(ws, levels, n, p)) :
                    Range(ae.ExportNames)
                        \subseteq Get(allUpstreamTaint, Specifier(p, ae.EntrypointPath))

\* C13: when the analysis of one library fails, that library adds nothing
\* to the upstream-taint map, the results of the other libraries of its
\* level are still merged, the join point of every level is reached (no
\* goroutine and no main loop waits forever), and the later levels and the
\* target evaluation run to the end.
C13_FailureIsolated ==
    /\ [](ws.failing # {} => NothingFromFailing /\ OthersMerged)
    /\ (ws.failing # {} /\ pc = "level") ~> (pc = "merge")
    /\ (ws.failing # {}) ~> (pc = "done")

\* a finished run in which m failed, u of the same level was merged and d
\* of a later level was analyzed with u's taint, and a target was printed
C13_Witness ==
    /\ pc = "done"
    /\ ws.failing = {LibM}
    /\ \E n \in DOMAIN levels : {LibU, LibM} \subseteq levels[n]
    /\ Get(allUpstreamTaint, LibU) # {}
    /\ Get(allUpstreamTaint, LibD) # {}
    /\ LibD \in DOMAIN snapSeen /\ LibU \in snapSeen[LibD]
    /\ Len(output) > 0

\* ------------------------------------------------------------------------
\* TopologicalSort on its own: packages u, m and d; every ordered pair may
\* be linked through "dependencies", "devDependencies" or both, m may list
\* itself, and every package also lists an external dependency
\* ------------------------------------------------------------------------
DepKinds == {"none", "dep", "dev", "both"}

DepPairs == {pq \in Libs \X Libs : pq[1] # pq[2] \/ pq = <<LibM, LibM>>}

\* d and the self-reference of m use "dependencies" only
DepGraphs ==
    {g \in [DepPairs -> DepKinds] :
        \A pq \in DepPairs : (pq[1] = LibD \/ pq[1] = pq[2]) => g[pq] \in {"none", "dep"}}

External == <<"lodash">>

DepManifest(g, p, kinds) ==
    [d \in {q \in Libs : <<p, q>> \in DepPairs /\ g[<<p, q>>] \in kinds} \cup {External} |->
        IF d = External THEN <<"^", "4">> ELSE WorkspaceVersion]

DepWorkspace(g) ==
    [projects |-> <<[PackageName |-> LibU, ProjectFolder |-> Folder(LibU)],
                    [PackageName |-> LibM, ProjectFolder |-> Folder(LibM)],
                    [PackageName |-> LibD, ProjectFolder |-> Folder(LibD)]>>,
     pkg |-> [p \in Libs |->
                 [dependencies |-> DepManifest(g, p, {"dep", "both"}),
                  devDependencies |-> DepManifest(g, p, {"dev", "both"})]],
     failing |-> {}]

\* the sets handed to TopologicalSort
PackageSets == {S \in SUBSET Libs : Cardinality(S) >= 2}

TopoInit ==
    \E g \in DepGraphs, packages \in PackageSets :
        /\ Idle(DepWorkspace(g))
        /\ inp = packages
        /\ res = <<>>

\* inDegree and remaining are filled
SortEnter ==
    /\ pc = "start"
    /\ pc' = "sort"
    /\ res' = TopoStart(ws, inp)
    /\ UNCHANGED <<ws, levels, levelIdx, toSpawn, running, resultsCh, allUpstreamTaint,
                   merged, snapSeen, ti, changedE2E, output, inp>>

\* one iteration of "for len(remaining) > 0"
SortIterate ==
    /\ pc = "sort"
    /\ res.remaining # {}
    /\ res' = TopoIteration(ws, res)
    /\ UNCHANGED <<ws, pc, levels, levelIdx, toSpawn, running, resultsCh, allUpstreamTaint,
                   merged, snapSeen, ti, changedE2E, output, inp>>

\* "return levels"
SortReturn ==
    /\ pc = "sort"
    /\ res.remaining = {}
    /\ pc' = "sorted"
    /\ UNCHANGED <<ws, levels, levelIdx, toSpawn, running, resultsCh, allUpstreamTaint,
                   merged, snapSeen, ti, changedE2E, output, inp, res>>

TopoNext == SortEnter \/ SortIterate \/ SortReturn

SpecTopo == TopoInit /\ [][TopoNext]_vars

\* the loop is run by one thread that is never suspended forever
SpecTopoFair == SpecTopo /\ WF_vars(TopoNext)

\* the workspace dependencies of p, read from the two maps of its manifest
ManifestDeps(w, p) ==
    {d \in PackageNames(w) :
        \/ d \in DOMAIN w.pkg[p].dependencies
              /\ HasPrefix(w.pkg[p].dependencies[d], WorkspacePrefix)
        \/ d \in DOMAIN w.pkg[p].devDependencies
              /\ HasPrefix(w.pkg[p].devDependencies[d], WorkspacePrefix)}

RECURSIVE ReachableIn(_, _, _)
ReachableIn(w, S, from) ==
    LET next == from \cup UNION {ManifestDeps(w, p) \cap S : p \in from}
    IN IF next = from THEN from ELSE ReachableIn(w, S, next)

\* the dependency graph restricted to S has no cycle
AcyclicIn(w, S) == \A p \in S : p \notin ReachableIn(w, S, ManifestDeps(w, p) \cap S)

PlacedBefore(lvs, i) == UNION {lvs[j] : j \in 1..(i - 1)}

IsPartition(lvs, S) ==
    /\ UNION {lvs[i] : i \in DOMAIN lvs} = S
    /\ \A i \in DOMAIN lvs : lvs[i] # {}
    /\ \A i, j \in DOMAIN lvs : i # j => lvs[i] \cap lvs[j] = {}

\* level i holds exactly the packages not placed before it whose
\* dependencies in S are all placed before it
LevelsByDependencies(w, lvs, S) ==
    \A i \in DOMAIN lvs :
        lvs[i] = {p \in S \ PlacedBefore(lvs, i) :
                     ManifestDeps(w, p) \cap S \subseteq PlacedBefore(lvs, i)}

\* C14: TopologicalSort returns a partition of the set it is given, and
\* when the dependency graph restricted to that set is acyclic, level i
\* holds exactly the not-yet-placed packages whose dependencies in the set
\* are all in earlier levels -- also when a dependency is listed both in
\* dependencies and in devDependencies.
C14_LevelsPartition ==
    pc = "sorted" =>
        /\ IsPartition(res.levels, inp)
        /\ AcyclicIn(ws, inp) => LevelsByDependencies(ws, res.levels, inp)

\* a finished sort of an acyclic chain of three packages in which one
\* dependency is listed in both maps
C14_Witness ==
    /\ pc = "sorted"
    /\ AcyclicIn(ws, inp)
    /\ Len(res.levels) = 3
    /\ \E p \in inp : \E d \in inp :
          DepCount(ws, p, d) = 2

\* C15: TopologicalSort terminates on every dependency graph, cyclic ones
\* included: an iteration that finds no remaining package with all its
\* dependencies placed emits all remaining packages as one final level,
\* after which the loop ends.
C15_SortTerminates ==
    /\ <>(pc = "sorted")
    /\ [][(pc = "sort" /\ res.remaining # {}
             /\ \A p \in res.remaining :
                   ~(ManifestDeps(ws, p) \cap inp \subseteq inp \ res.remaining))
          => /\ res'.remaining = {}
             /\ res'.levels = Append(res.levels, res.remaining)]_vars

\* a finished sort whose last level is the residue of a cycle and follows
\* a regular level
C15_Witness ==
    /\ pc = "sorted"
    /\ ~AcyclicIn(ws, inp)
    /\ Len(res.levels) = 2
    /\ Cardinality(res.levels[2]) = 2
    /\ \A p \in res.levels[2] : ManifestDeps(ws, p) \cap res.levels[2] # {}

\* ------------------------------------------------------------------------
\* Runs with and without the TARGETS filter: the regular target is "t",
\* the virtual target is printed as "t2"
\* ------------------------------------------------------------------------
SecondName == <<"t", "2">>

\* the comma-separated items of TARGETS
FilterItems ==
    {<<>>, <<" ">>, <<"t">>, <<"t", "2">>, <<"2">>, <<"*">>, <<"t", "*">>, <<"*", "2">>,
     <<"*", "t">>, <<"t", "*", "2">>, <<"*", "*">>, <<" ", "t", " ">>}

\* TARGETS with one item or two
FilterLists == {<<a>> : a \in FilterItems} \cup {<<a, b>> : a \in FilterItems, b \in FilterItems}

FilterChanges ==
    {{}, {<<"libs", "/", "u">> \o Slash \o IndexFile},
     {<<"e2e", "/", "t">> \o Slash \o TestFile},
     {<<"e2e", "/", "vt">> \o Slash \o ScenFile}}

FilterWorkspace(changed, fine) ==
    With(TargetWorkspace([changed |-> changed, css |-> FALSE, timport |-> "fn",
                          ignores |-> FALSE, fine |-> fine, app |-> FALSE, lock |-> {}]),
         LAMBDA w : [w EXCEPT !.cfg[VtProject].TargetName = SecondName])

FilterInit ==
    \E changed \in FilterChanges, fine \in BOOLEAN, patterns \in FilterLists :
        /\ Idle(FilterWorkspace(changed, fine))
        /\ inp = patterns
        /\ res = <<>>

\* the same run with TARGETS set
FilteredRun ==
    /\ pc = "start"
    /\ Len(res) = 1
    /\ res' = Append(res, RunOutput([ws EXCEPT !.targetPatterns = inp]))
    /\ UNCHANGED <<ws, pc, levels, levelIdx, toSpawn, running, resultsCh, allUpstreamTaint,
                   merged, snapSeen, ti, changedE2E, output, inp>>

FilterNext == FirstRun \/ FilteredRun

SpecFilter == FilterInit /\ [][FilterNext]_vars

\* an item without the blanks around it
RECURSIVE Trimmed(_)
Trimmed(item) ==
    IF item # <<>> /\ Head(item) = Space THEN Trimmed(Tail(item))
    ELSE IF item # <<>> /\ item[Len(item)] = Space THEN Trimmed(SubSeq(item, 1, Len(item) - 1))
    ELSE item

\* the name is the pattern with every "*" replaced by some run of characters
RECURSIVE GlobAccepts(_, _)
GlobAccepts(pat, name) ==
    IF pat = <<>> THEN name = <<>>
    ELSE IF Head(pat) = "*"
         THEN \E k \in 0..Len(name) : GlobAccepts(Tail(pat), SubSeq(name, k + 1, Len(name)))
    ELSE name # <<>> /\ Head(name) = Head(pat) /\ GlobAccepts(Tail(pat), Tail(name))

NameSelected(name, items) ==
    \E i \in DOMAIN items : Trimmed(items[i]) # <<>> /\ GlobAccepts(Trimmed(items[i]), name)

RECURSIVE Restrict(_, _)
Restrict(out, items) ==
    IF out = <<>> THEN <<>>
    ELSE (IF NameSelected(Head(out).Name, items) THEN <<Head(out)>> ELSE <<>>)
         \o Restrict(Tail(out), items)

RECURSIVE countLeadingSpaces(_)
countLeadingSpaces(s) ==
    IF s # <<>> /\ Head(s) = Space THEN 1 + countLeadingSpaces(Tail(s)) ELSE 0

TrimSuffix(s, p) == IF HasSuffix(s, p) THEN SubSeq(s, 1, Len(s) - Len(p)) ELSE s

\* strings.Trim(s, "'\"")
RECURSIVE TrimQuotes(_)
TrimQuotes(s) ==
    IF s # <<>> /\ Head(s) \in Quotes THEN TrimQuotes(Tail(s))
    ELSE IF s # <<>> /\ s[Len(s)] \in Quotes THEN TrimQuotes(SubSeq(s, 1, Len(s) - 1))
    ELSE s

Colon == <<":">>

\* filepath.Clean(filepath.Join(base, raw)) for a relative raw path: every
\* "../" of raw removes the last element of what precedes it
RECURSIVE CleanJoin(_, _)
CleanJoin(base, raw) ==
    IF HasPrefix(raw, <<"..", "/">>)
    THEN CleanJoin(IF Len(base) >= 2 THEN SubSeq(base, 1, Len(base) - 2) ELSE <<>>,
                   SubSeq(raw, 3, Len(raw)))
    ELSE IF base = <<>> THEN raw ELSE base \o Slash \o raw

ImporterBase(subspace) == <<"common", "/", "temp", "/">> \o subspace

DepSectionHeaders ==
    {<<"dependencies", ":">>, <<"devDependencies", ":">>, <<"optionalDependencies", ":">>}

\* the loop variables of buildImporterDepLineMap; lineMap maps a line
\* number to [projectFolder, depName], workspaceDeps is the set of
\* <<projectFolder, depName>> with a "version: link:" line
ScanStart ==
    [inImporters |-> FALSE, currentImporter |-> <<>>, inDepSection |-> FALSE,
     currentDepName |-> <<>>, lineMap |-> <<>>, workspaceDeps |-> {}, left |-> FALSE]

\* strings.TrimSpace(strings.TrimPrefix(trimmed, "version:")) without quotes
VersionOf(trimmed) == TrimQuotes(TrimRight(TrimLeft(TrimPrefix(trimmed, <<"version", ":">>))))

\* every block of an importer counts as a dependency block
ScanLineAnyBlock(st, lineNum, line, importerBase) ==
    With(countLeadingSpaces(line), LAMBDA indent :
      With(TrimRight(TrimLeft(line)), LAMBDA trimmed :
        IF st.left \/ trimmed = <<>> \/ HasPrefix(trimmed, <<"#">>) THEN st
        ELSE IF indent = 0
        THEN IF HasPrefix(line, <<"importers", ":">>)
             THEN [st EXCEPT !.inImporters = TRUE, !.currentImporter = <<>>,
                             !.inDepSection = FALSE, !.currentDepName = <<>>]
             ELSE IF st.inImporters THEN [st EXCEPT !.left = TRUE]
             ELSE st
        ELSE IF ~st.inImporters THEN st
        ELSE IF indent = 2
        THEN IF ~HasSuffix(trimmed, Colon) THEN st
             ELSE With(TrimQuotes(TrimSuffix(trimmed, Colon)), LAMBDA rawPath :
                    [st EXCEPT !.currentImporter =
                                   IF rawPath = <<".">> THEN <<>>
                                   ELSE CleanJoin(importerBase, rawPath),
                               !.inDepSection = FALSE, !.currentDepName = <<>>])
        ELSE IF indent = 4
        THEN IF st.currentImporter = <<>> THEN st
             ELSE [st EXCEPT !.inDepSection = TRUE,
                             !.currentDepName = <<>>]
        ELSE IF indent = 6
        THEN IF ~st.inDepSection \/ st.currentImporter = <<>> THEN st
             ELSE IF ~HasSuffix(trimmed, Colon) THEN st
             ELSE With(TrimQuotes(TrimSuffix(trimmed, Colon)), LAMBDA depName :
                    [st EXCEPT !.currentDepName = depName,
                               !.lineMap = Put(@, lineNum,
                                               [projectFolder |-> st.currentImporter,
                                                depName |-> depName])])
        ELSE IF indent >= 8
        THEN IF ~st.inDepSection \/ st.currentImporter = <<>> \/ st.currentDepName = <<>>
             THEN st
             ELSE [st EXCEPT
                     !.lineMap = Put(@, lineNum, [projectFolder |-> st.currentImporter,
                                                  depName |-> st.currentDepName]),
                     !.workspaceDeps =
                         IF HasPrefix(trimmed, <<"version", ":">>)
                            /\ HasPrefix(VersionOf(trimmed), <<"link", ":">>)
                         THEN @ \cup {<<st.currentImporter, st.currentDepName>>}
                         ELSE @]
        ELSE st))

\* the body of "for i, line := range lines" for one line
ScanLine(st, lineNum, line, importerBase) ==
    With(countLeadingSpaces(line), LAMBDA indent :
      With(TrimRight(TrimLeft(line)), LAMBDA trimmed :
        IF st.left \/ trimmed = <<>> \/ HasPrefix(trimmed, <<"#">>) THEN st
        ELSE IF indent = 0
        THEN IF HasPrefix(line, <<"importers", ":">>)
             THEN [st EXCEPT !.inImporters = TRUE, !.currentImporter = <<>>,
                             !.inDepSection = FALSE, !.currentDepName = <<>>]
             ELSE IF st.inImporters THEN [st EXCEPT !.left = TRUE]
             ELSE st
        ELSE IF ~st.inImporters THEN st
        ELSE IF indent = 2
        THEN IF ~HasSuffix(trimmed, Colon) THEN st
             ELSE With(TrimQuotes(TrimSuffix(trimmed, Colon)), LAMBDA rawPath :
                    [st EXCEPT !.currentImporter =
                                   IF rawPath = <<".">> THEN <<>>
                                   ELSE CleanJoin(importerBase, rawPath),
                               !.inDepSection = FALSE, !.currentDepName = <<>>])
        ELSE IF indent = 4
        THEN IF st.currentImporter = <<>> THEN st
             ELSE [st EXCEPT !.inDepSection = trimmed \in DepSectionHeaders,
                             !.currentDepName = <<>>]
        ELSE IF indent = 6
        THEN IF ~st.inDepSection \/ st.currentImporter = <<>> THEN st
             ELSE IF ~HasSuffix(trimmed, Colon) THEN st
             ELSE With(TrimQuotes(TrimSuffix(trimmed, Colon)), LAMBDA depName :
                    [st EXCEPT !.currentDepName = depName,
                               !.lineMap = Put(@, lineNum,
                                               [projectFolder |-> st.currentImporter,
                                                depName |-> depName])])
        ELSE IF indent >= 8
        THEN IF ~st.inDepSection \/ st.currentImporter = <<>> \/ st.currentDepName = <<>>
             THEN st
             ELSE [st EXCEPT
                     !.lineMap = Put(@, lineNum, [projectFolder |-> st.currentImporter,
                                                  depName |-> st.currentDepName]),
                     !.workspaceDeps =
                         IF HasPrefix(trimmed, <<"version", ":">>)
                            /\ HasPrefix(VersionOf(trimmed), <<"link", ":">>)
                         THEN @ \cup {<<st.currentImporter, st.currentDepName>>}
                         ELSE @]
        ELSE st))

RECURSIVE ScanLines(_, _, _, _)
ScanLines(st, lineNum, lines, importerBase) ==
    IF lineNum > Len(lines) THEN st
    ELSE With(ScanLine(st, lineNum, lines[lineNum], importerBase), LAMBDA next :
           ScanLines(next, lineNum + 1, lines, importerBase))

buildImporterDepLineMap(content, importerBase) == ScanLines(ScanStart, 1, content, importerBase)

\* parseDiffChangedLines: the new-side numbers of the "+" lines, in order
RECURSIVE DiffLoop(_, _, _, _)
DiffLoop(diffLines, i, newLineNum, result) ==
    IF i > Len(diffLines) THEN result
    ELSE IF diffLines[i].prefix = "@@"
    THEN DiffLoop(diffLines, i + 1, diffLines[i].start - 1, result)
    ELSE IF newLineNum = 0 \/ diffLines[i].prefix = "-"
    THEN DiffLoop(diffLines, i + 1, newLineNum, result)
    ELSE DiffLoop(diffLines, i + 1, newLineNum + 1,
                  IF diffLines[i].prefix = "+" THEN Append(result, newLineNum + 1)
                  ELSE result)

parseDiffChangedLines(diffText) == DiffLoop(diffText, 1, 0, <<>>)

\* the result loop of FindDepAffectedProjects over the changed lines
RECURSIVE CollectChanged(_, _, _)
CollectChanged(scan, changedLines, result) ==
    IF changedLines = <<>> THEN result
    ELSE With(Head(changedLines), LAMBDA line :
           CollectChanged(scan, Tail(changedLines),
               IF line \notin DOMAIN scan.lineMap THEN result
               ELSE IF scan.lineMap[line].projectFolder = <<>>
                       \/ scan.lineMap[line].depName = <<>>
               THEN result
               ELSE IF <<scan.lineMap[line].projectFolder, scan.lineMap[line].depName>>
                         \in scan.workspaceDeps
               THEN result
               ELSE AddAll(result, scan.lineMap[line].projectFolder,
                           {scan.lineMap[line].depName})))

\* FindDepAffectedProjects: project folder -> set of changed dependency
\* names (no entry at all for an empty diff)
FindDepAffectedProjects(content, subspace, diffText) ==
    IF diffText = <<>> THEN EmptyMap
    ELSE With(buildImporterDepLineMap(content, ImporterBase(subspace)), LAMBDA scan :
           CollectChanged(scan, parseDiffChangedLines(diffText), EmptyMap))

\* ------------------------------------------------------------------------
\* a lockfile of the subspace "default": every line carries, next to its
\* text, the importer folder, block and dependency that own it in the
\* document (empty where no dependency of an importer owns the line)
\* ------------------------------------------------------------------------
Ind(n) == [i \in 1..n |-> " "]

Unowned(text) == [text |-> text, folder |-> <<>>, block |-> "", dep |-> <<>>]

Owned(text, folder, block, dep) == [text |-> text, folder |-> folder, block |-> block, dep |-> dep]

Quoted(q, s) == IF q = "" THEN s ELSE <<q>> \o s \o <<q>>

\* the name line and the property lines of one dependency entry
DepEntry(folder, block, name, q, version) ==
    << Owned(Ind(6) \o Quoted(q, name) \o Colon, folder, block, name),
       Owned(Ind(8) \o <<"specifier", ":", " ", "^1">>, folder, block, name),
       Owned(Ind(8) \o <<"version", ":", " ">> \o Quoted(q, version), folder, block, name) >>

BlockHeader(block) == Unowned(Ind(4) \o <<block, ":">>)

ImporterKey(q, raw) == Unowned(Ind(2) \o Quoted(q, raw) \o Colon)

FolderU == <<"libs", "/", "u">>
FolderD == <<"libs", "/", "d">>
UpThree == <<"..", "/", "..", "/", "..", "/">>

RealVersion == <<"1.0.0">>
LinkVersion == <<"link", ":", "..", "/", "d">>

RootImporter(q) ==
    << ImporterKey(q, <<".">>), BlockHeader("dependencies") >>
    \o DepEntry(<<>>, "dependencies", <<"react">>, q, RealVersion)

\* libs/u: react and d under dependencies, a scoped name under
\* devDependencies, and a dependenciesMeta block that names react again
ImporterU(q, dVersion) ==
    << ImporterKey(q, UpThree \o FolderU), BlockHeader("dependencies") >>
    \o DepEntry(FolderU, "dependencies", <<"react">>, q, RealVersion)
    \o DepEntry(FolderU, "dependencies", <<"d">>, q, dVersion)
    \o << BlockHeader("devDependencies") >>
    \o DepEntry(FolderU, "devDependencies", <<"@s", "/", "x">>, "'", RealVersion)
    \o << BlockHeader("dependenciesMeta"),
          Owned(Ind(6) \o <<"react", ":">>, FolderU, "dependenciesMeta", <<"react">>),
          Owned(Ind(8) \o <<"injected", ":", " ", "true">>, FolderU, "dependenciesMeta",
                <<"react">>) >>

ImporterD(q) ==
    << ImporterKey(q, UpThree \o FolderD), BlockHeader("optionalDependencies") >>
    \o DepEntry(FolderD, "optionalDependencies", <<"fs">>, q, RealVersion)
    \o << Unowned(Ind(4) \o <<"publishDirectory", ":", " ", "dist">>) >>

LockPreamble ==
    << Unowned(<<"lockfileVersion", ":", " ", "'", "9.0", "'">>),
       Unowned(<<>>),
       Unowned(<<"catalogs", ":">>),
       Unowned(Ind(2) \o <<"default", ":">>),
       Unowned(Ind(4) \o <<"dependencies", ":">>),
       Unowned(Ind(6) \o <<"react", ":">>),
       Unowned(Ind(8) \o <<"version", ":", " ", "1.0.0">>),
       Unowned(<<>>),
       Unowned(<<"importers", ":">>),
       Unowned(<<>>) >>

LockPackages ==
    << Unowned(<<>>),
       Unowned(<<"packages", ":">>),
       Unowned(<<>>),
       Unowned(Ind(2) \o <<"react@1.0.0", ":">>),
       Unowned(Ind(4) \o <<"dependencies", ":">>),
       Unowned(Ind(6) \o <<"loose", ":">>),
       Unowned(Ind(8) \o <<"version", ":", " ", "1.0.0">>) >>

LockDocument(q, dVersion, rootFirst) ==
    LockPreamble
    \o (IF rootFirst THEN RootImporter(q) \o << Unowned(<<>>) >> \o ImporterU(q, dVersion)
        ELSE ImporterU(q, dVersion) \o << Unowned(<<"#", " ", "root">>) >> \o RootImporter(q))
    \o << Unowned(<<>>) >>
    \o ImporterD(q)
    \o LockPackages

LockDocuments ==
    {LockDocument(q, v, q = "") : q \in {"", "'"}, v \in {RealVersion, LinkVersion}}

LockLen == Len(LockDocument("", RealVersion, TRUE))

\* the sets of changed new-side lines: none, one line, two lines
ChangedLineSets == {{}} \cup {{a, b} : a \in 1..LockLen, b \in 1..LockLen}

\* "git diff" output with one hunk from line start to the end of the
\* file: a changed line is a removal followed by an addition
RECURSIVE HunkBody(_, _, _)
HunkBody(from, to, changed) ==
    IF from > to THEN <<>>
    ELSE (IF from \in changed THEN <<[prefix |-> "-", start |-> 0], [prefix |-> "+", start |-> 0]>>
          ELSE <<[prefix |-> " ", start |-> 0]>>)
         \o HunkBody(from + 1, to, changed)

DiffOf(changed, start) ==
    IF changed = {} THEN <<>>
    ELSE << [prefix |-> "d", start |-> 0], [prefix |-> "-", start |-> 0],
            [prefix |-> "+", start |-> 0], [prefix |-> "@@", start |-> start] >>
         \o HunkBody(start, LockLen, changed)

Content(doc) == [i \in 1..Len(doc) |-> doc[i].text]

LockInit ==
    \E doc \in LockDocuments, changed \in ChangedLineSets, start \in {1, 2} :
        /\ Idle([doc |-> doc, subspace |-> <<"default">>])
        /\ inp = DiffOf(changed, start)
        /\ res = <<>>

\* findLockfileAffectedProjects asks for the affected projects of the subspace
LockDiff ==
    /\ pc = "start"
    /\ res = <<>>
    /\ res' = <<FindDepAffectedProjects(Content(ws.doc), ws.subspace, inp)>>
    /\ UNCHANGED <<ws, pc, levels, levelIdx, toSpawn, running, resultsCh, allUpstreamTaint,
                   merged, snapSeen, ti, changedE2E, output, inp>>

SpecLock == LockInit /\ [][LockDiff]_vars

DepBlocks == {"dependencies", "devDependencies", "optionalDependencies"}

\* the lines of doc owned by dependency dep in a dependency block of folder
OwnedLines(doc, folder, dep) ==
    {i \in 1..Len(doc) : doc[i].folder = folder /\ doc[i].dep = dep /\ doc[i].block \in DepBlocks}

\* dep has a workspace link as its version under folder
IsLinked(doc, folder, dep) ==
    \E i \in OwnedLines(doc, folder, dep) :
        /\ HasPrefix(TrimLeft(doc[i].text), <<"version", ":">>)
        /\ \E j \in 1..(Len(doc[i].text) - 1) : SubSeq(doc[i].text, j, j + 1) = <<"link", ":">>

ChangedNewSide == Range(parseDiffChangedLines(inp))

LockFolders == {FolderU, FolderD}
LockNames == {ws.doc[i].dep : i \in 1..Len(ws.doc)} \ {<<>>}

ExpectedNames(folder) ==
    {dep \in LockNames : /\ OwnedLines(ws.doc, folder, dep) \cap ChangedNewSide # {}
                         /\ ~IsLinked(ws.doc, folder, dep)}

\* C17: for the changed new-side lines of the diff, the result maps every
\* importer folder to exactly the names of the dependencies that own a
\* changed line in one of its dependencies, devDependencies or
\* optionalDependencies blocks and are not workspace links; the root
\* importer and the lines outside the importers section give no entry
C17_ChangedDependencies ==
    res # <<>> =>
        /\ DOMAIN res[1] = {f \in LockFolders : ExpectedNames(f) # {}}
        /\ \A f \in DOMAIN res[1] : res[1][f] = ExpectedNames(f)

\* two importers are reported, one of them next to a changed line of a
\* workspace link
C17_Witness ==
    /\ res # <<>>
    /\ DOMAIN res[1] = LockFolders
    /\ \E i \in ChangedNewSide : ws.doc[i].dep = <<"fs">>
    /\ IsLinked(ws.doc, FolderU, <<"d">>)

\* ------------------------------------------------------------------------
\* the orchestrator over a workspace in which the name of one library
\* ("u2") starts with the name of another ("u")
\* ------------------------------------------------------------------------
LibU2 == <<"u", "2">>

SnapLibs == {LibU, LibU2, LibM}

SnapGraphs ==
    {g \in [SnapLibs -> SUBSET SnapLibs] :
        /\ g[LibU] \in {{}, {LibU2}}
        /\ g[LibU2] = {}
        /\ LibM \notin g[LibM]}

SnapWorkspace(graph, changed) ==
    LET all == SnapLibs \cup {TargetT}
        dep == [p \in all |-> IF p = TargetT THEN {LibM} ELSE graph[p]]
    IN [projects |-> <<[PackageName |-> LibM, ProjectFolder |-> Folder(LibM)],
                       [PackageName |-> LibU, ProjectFolder |-> Folder(LibU)],
                       [PackageName |-> LibU2, ProjectFolder |-> Folder(LibU2)],
                       [PackageName |-> TargetT, ProjectFolder |-> Folder(TargetT)]>>,
        pkg |-> [p \in all |-> Manifest(p \in SnapLibs, dep[p])],
        files |-> [p \in all |-> [r \in {IndexFile} |->
                      ModuleFile(Fn(p), SetToSeq(dep[p]), "v1")]],
        old |-> [p \in all |-> [r \in {IndexFile} |->
                      ModuleFile(Fn(p), SetToSeq(dep[p]), "v0")]],
        styles |-> [p \in all |-> EmptyMap],
        cfg |-> [p \in all |-> IF p = TargetT THEN TargetConfig(None, <<>>) ELSE NilConfig],
        changedFiles |-> {SourcePath(p) : p \in changed},
        depChangedDeps |-> EmptyMap,
        includeTypes |-> FALSE, includeCSS |-> FALSE,
        targetPatterns |-> <<>>, failing |-> {}]

SnapInit ==
    \E graph \in SnapGraphs, changed \in (SUBSET SnapLibs) \ {{}} :
        /\ Idle(SnapWorkspace(graph, changed))
        /\ inp = <<>>
        /\ res = <<>>

SpecSnap == SnapInit /\ [][Next]_vars

\* specifier names package dep itself or one of its subpaths
BelongsTo(specifier, dep) == specifier = dep \/ HasPrefix(specifier, dep \o Slash)

DeclaredBy(p) == Range(DependsOn(ws, p))

\* C18: while a level runs, the snapshot a package was started with holds
\* exactly the entries of the shared map that belong to a package it
\* declares as a workspace dependency, each with all its tainted names
C18_SnapshotDeclaredOnly ==
    pc = "level" =>
        \A p \in DOMAIN running :
            /\ DOMAIN running[p] =
                   {sp \in DOMAIN allUpstreamTaint : \E dep \in DeclaredBy(p) : BelongsTo(sp, dep)}
            /\ \A sp \in DOMAIN running[p] : running[p][sp] = allUpstreamTaint[sp]

\* ------------------------------------------------------------------------
\* the orchestrator over workspaces that list their projects in different
\* orders and name the virtual target before, after or like target t
\* ------------------------------------------------------------------------
Reverse(s) == [i \in DOMAIN s |-> s[Len(s) + 1 - i]]

ProjectOrders ==
    {ProjectFolders, Reverse(ProjectFolders),
     <<ProjectFolders[6], ProjectFolders[3], ProjectFolders[5], ProjectFolders[1],
       ProjectFolders[4], ProjectFolders[2]>>}

TargetNames == {VtName, <<"a">>, SecondName, TargetT}

OrderWorkspace(order, name, changed, fine) ==
    With(FilterWorkspace(changed, fine), LAMBDA w :
        [w EXCEPT !.projects = order, !.cfg[VtProject].TargetName = name])

OrderInit ==
    \E order \in ProjectOrders, name \in TargetNames, changed \in FilterChanges,
       fine \in BOOLEAN :
        /\ Idle(OrderWorkspace(order, name, changed, fine))
        /\ inp = <<>>
        /\ res = <<>>

SpecOrder == OrderInit /\ [][Next]_vars

PositionOf(p) == CHOOSE i \in DOMAIN ws.projects : ws.projects[i].PackageName = p

\* C19: the printed list is in strictly ascending order of target name,
\* so no name occurs twice, and it names exactly the targets collected
\* during the evaluation, in whatever order the projects were visited
C19_OutputSorted ==
    pc = "done" =>
        /\ \A i \in 1..(Len(output) - 1) : LessStr(output[i].Name, output[i + 1].Name)
        /\ \A i, j \in DOMAIN output : output[i].Name = output[j].Name => i = j
        /\ OutputNames(output) = DOMAIN changedE2E

\* the virtual target was evaluated before target t and is printed after it
C19_Witness ==
    /\ pc = "done"
    /\ Len(output) = 2
    /\ PositionOf(VtProject) < PositionOf(TargetT)
    /\ output[1].Name = TargetT
    /\ output[2].Name = ws.cfg[VtProject].TargetName

\* a change of u triggers both projects, both carry the name t, and it is
\* printed once
C19_SameName ==
    /\ pc = "done"
    /\ ws.cfg[VtProject].TargetName = TargetT
    /\ ws.changedFiles = {<<"libs", "/", "u">> \o Slash \o IndexFile}
    /\ Len(output) = 1
    /\ output[1].Name = TargetT

\* ------------------------------------------------------------------------
\* rush.ProjectConfig with several targets (part_005): Ignores is a Go
\* slice [arr, len, cap] into a heap of backing arrays, so that two
\* configs can share storage; a TargetDef carries its own list of globs
\* ------------------------------------------------------------------------
SliceItems(heap, s) == SubSeq(heap[s.arr], 1, s.len)

\* make([]string, 0, n)
MakeSlice(heap, n) ==
    [heap |-> Append(heap, [i \in 1..n |-> <<>>]),
     slice |-> [arr |-> Len(heap) + 1, len |-> 0, cap |-> n]]

\* append(s, xs...): in place while the capacity suffices, else a copy
AppendSlice(heap, s, xs) ==
    IF s.len + Len(xs) <= s.cap
    THEN [heap |-> [heap EXCEPT ![s.arr] =
                       [i \in 1..s.cap |-> IF i > s.len /\ i <= s.len + Len(xs)
                                           THEN xs[i - s.len] ELSE @[i]]],
          slice |-> [s EXCEPT !.len = s.len + Len(xs)]]
    ELSE [heap |-> Append(heap, SliceItems(heap, s) \o xs),
          slice |-> [arr |-> Len(heap) + 1, len |-> s.len + Len(xs),
                     cap |-> s.len + Len(xs)]]

\* what a call on a nil receiver with target ignores ends in
Panicked == [present |-> FALSE, Targets |-> <<>>, Ignores |-> [arr |-> 1, len |-> 0, cap |-> 0],
             panicked |-> TRUE]

\* the target's globs are appended to the project's own slice
WithTargetIgnoresInPlace(heap, projCfg, td) ==
    IF Len(td.Ignores) = 0 THEN [heap |-> heap, cfg |-> projCfg]
    ELSE IF ~projCfg.present THEN [heap |-> heap, cfg |-> Panicked]
    ELSE With(AppendSlice(heap, projCfg.Ignores, td.Ignores), LAMBDA all :
           [heap |-> all.heap, cfg |-> [projCfg EXCEPT !.Ignores = all.slice]])

\* ProjectConfig.WithTargetIgnores
WithTargetIgnores(heap, projCfg, td) ==
    IF Len(td.Ignores) = 0 THEN [heap |-> heap, cfg |-> projCfg]
    ELSE IF ~projCfg.present THEN [heap |-> heap, cfg |-> Panicked]
    ELSE With(MakeSlice(heap, projCfg.Ignores.len + Len(td.Ignores)), LAMBDA made :
           With(AppendSlice(made.heap, made.slice, SliceItems(heap, projCfg.Ignores)),
                LAMBDA own :
                  With(AppendSlice(own.heap, own.slice, td.Ignores), LAMBDA all :
                    [heap |-> all.heap,
                     cfg |-> [present |-> TRUE, Targets |-> projCfg.Targets,
                              Ignores |-> all.slice, panicked |-> FALSE]])))

\* the config as IsIgnored reads it
Loaded(heap, cfg) == [present |-> cfg.present, Ignores |-> SliceItems(heap, cfg.Ignores)]

TsIgnore == <<"**", "/", "*", ".ts">>

ScenAll == <<"scen", "/", "**">>

ProjectIgnoreLists == {<<>>, <<MdIgnore>>, <<TsIgnore>>, <<ScenMdIgnore, TsIgnore>>}

TargetIgnoreLists == {<<>>, <<ScenAll>>, <<TsIgnore>>, <<MdIgnore, ScenAll>>}

IgnorePaths == {ConfigFileName, ReadmeFile, NotesFile, ScenFile, TestFile}

\* spare capacity the decoder may leave behind the project's globs
SpareCapacities == 0..2

MultiTargetConfig(ignores, spare, first, second) ==
    [heap |-> << ignores \o [i \in 1..spare |-> <<>>] >>,
     pc |-> [present |-> TRUE,
             Targets |-> <<[Type |-> "target", Ignores |-> first],
                           [Type |-> "virtual-target", Ignores |-> second]>>,
             Ignores |-> [arr |-> 1, len |-> Len(ignores), cap |-> Len(ignores) + spare],
             panicked |-> FALSE]]

MissingConfig ==
    [heap |-> << <<>> >>,
     pc |-> [present |-> FALSE, Targets |-> <<>>, Ignores |-> [arr |-> 1, len |-> 0, cap |-> 0],
             panicked |-> FALSE]]

IgnoresInit ==
    \/ /\ Idle(MissingConfig)
       /\ inp = [present |-> FALSE, Ignores |-> <<>>]
       /\ res = <<>>
    \/ \E ignores \in ProjectIgnoreLists, spare \in SpareCapacities,
          first \in TargetIgnoreLists, second \in TargetIgnoreLists :
          /\ Idle(MultiTargetConfig(ignores, spare, first, second))
          /\ inp = [present |-> TRUE, Ignores |-> ignores]
          /\ res = <<>>

\* target k of the project is evaluated under its own config, which is kept
TargetIgnores(k) ==
    /\ pc = "start"
    /\ k \in DOMAIN ws.pc.Targets
    /\ \A i \in DOMAIN res : res[i].target # k
    /\ \E r \in {WithTargetIgnores(ws.heap, ws.pc, ws.pc.Targets[k])} :
          /\ ws' = [ws EXCEPT !.heap = r.heap]
          /\ res' = Append(res, [target |-> k, cfg |-> r.cfg])
    /\ UNCHANGED <<pc, levels, levelIdx, toSpawn, running, resultsCh, allUpstreamTaint,
                   merged, snapSeen, ti, changedE2E, output, inp>>

IgnoresNext == \E k \in 1..2 : TargetIgnores(k)

SpecIgnores == IgnoresInit /\ [][IgnoresNext]_vars

\* the project-level config as loaded ignores path
ProjectIgnores(path) == IsIgnored(inp, path)

TargetGlobMatches(k, path) ==
    \E i \in DOMAIN ws.pc.Targets[k].Ignores : GlobMatch(ws.pc.Targets[k].Ignores[i], path)

\* C20: at any time, a config obtained for a target ignores a path exactly
\* when the project-level config ignores it or one of that target's globs
\* matches it, whichever other targets were evaluated before or after;
\* the project-level config still ignores what it ignored when loaded;
\* .goodchangesrc.json is ignored under every config, a missing one too
C20_TargetIgnoresAdditive ==
    /\ Loaded(ws.heap, ws.pc) = inp
    /\ IsIgnored(Loaded(ws.heap, ws.pc), ConfigFileName)
    /\ \A path \in IgnorePaths :
          /\ IsIgnored(Loaded(ws.heap, ws.pc), path) <=> ProjectIgnores(path)
          /\ \A i \in DOMAIN res :
                /\ ~res[i].cfg.panicked
                /\ IsIgnored(Loaded(ws.heap, res[i].cfg), path)
                      <=> (ProjectIgnores(path) \/ TargetGlobMatches(res[i].target, path))
    /\ \A i \in DOMAIN res : IsIgnored(Loaded(ws.heap, res[i].cfg), ConfigFileName)

\* both targets were evaluated; the project has spare capacity and globs of
\* its own, one target ignores scen/** and the other only **/*.ts, so
\* scen/notes.md is ignored for one target only
C20_Witness ==
    /\ Len(res) = 2
    /\ ws.pc.Ignores.cap > ws.pc.Ignores.len
    /\ ws.pc.Ignores.len > 0
    /\ \E i, j \in DOMAIN res :
          /\ IsIgnored(Loaded(ws.heap, res[i].cfg), NotesFile)
          /\ ~IsIgnored(Loaded(ws.heap, res[j].cfg), NotesFile)
          /\ ~ProjectIgnores(NotesFile)
          /\ ws.pc.Targets[res[j].target].Ignores # <<>>

\* the missing config ignores its own file name and nothing else
C20_MissingConfig ==
    /\ ~ws.pc.present
    /\ \A path \in IgnorePaths : IsIgnored(Loaded(ws.heap, ws.pc), path) <=> path = ConfigFileName

\* ------------------------------------------------------------------------
\* The package analyzer over one library d whose files form a chain
\*   src/index.ts -> src/a.ts -> src/b.ts -> src/c.ts
\* with import cycles, a self-import, side-effect imports and re-exports
\*   c : export function X() { return <vx>; }  export function Y() { return <vy>; }
\*       "cycle"    adds  import { a1 } from "./a"   and Y calls a1
\*       "self"     adds  import { X } from "./c"    and Y calls X
\*       "upstream" adds  import { X0 } from "u"     X calls X0, Y calls X
\*       "external" adds  import { X0 } from "lodash" X calls X0, Y calls X
\*   b : one of the import / re-export forms of BForms, from "./c"
\*   a : a side-effect import, a named import or a star re-export of "./b",
\*       or a side-effect import of "./c"
\* ------------------------------------------------------------------------
FileA == <<"src", "/", "a", ".ts">>

FileB == <<"src", "/", "b", ".ts">>

FileC == <<"src", "/", "c", ".ts">>

StemA == <<"src", "/", "a">>

StemB == <<"src", "/", "b">>

StemC == <<"src", "/", "c">>

StemIndex == <<"src", "/", "index">>

RelA == <<"./", "a">>

RelB == <<"./", "b">>

RelC == <<"./", "c">>

SymX0 == <<"X0">>

SymZ == <<"Z">>

SymA1 == <<"a1">>

SymB1 == <<"b1">>

UseX == <<"useX">>

Lodash == <<"lodash">>

ExportSpec(name, propertyName) == [name |-> name, propertyName |-> propertyName, typeOnly |-> FALSE]

\* export { <specs> } from <source>
NamedExports(specs, source) ==
    [kind |-> "named", name |-> None, isDefault |-> FALSE, source |-> source,
     specs |-> specs, typeOnly |-> FALSE]

SourceFile(imports, exports, symbols) ==
    [present |-> TRUE, importDecls |-> imports, exportDecls |-> exports, symbols |-> symbols]

CForms == {"plain", "cycle", "self", "upstream", "external"}

FileCOf(form, vx, vy) ==
    SourceFile(CASE form = "cycle" -> <<NamedImport(RelA, SymA1)>>
                 [] form = "self" -> <<NamedImport(RelC, SymX)>>
                 [] form = "upstream" -> <<NamedImport(LibU, SymX0)>>
                 [] form = "external" -> <<NamedImport(Lodash, SymX0)>>
                 [] OTHER -> <<>>,
               <<DeclExport(SymX), DeclExport(SymY)>>,
               <<FuncSymbol(SymX, IF form \in {"upstream", "external"} THEN <<SymX0>> ELSE <<>>,
                            vx),
                 FuncSymbol(SymY, CASE form = "cycle" -> <<SymA1>>
                                    [] form = "plain" -> <<>>
                                    [] OTHER -> <<SymX>>, vy)>>)

BForms == {"named", "side", "sideEmpty", "star", "reX", "reXY", "reXreY", "reXasZ", "impXreY"}

FileBOf(form) ==
    CASE form = "named" ->
            SourceFile(<<NamedImport(RelC, SymX)>>, <<DeclExport(UseX)>>,
                       <<FuncSymbol(UseX, <<SymX>>, "v1")>>)
      [] form = "side" ->
            SourceFile(<<SideEffectImport(RelC)>>, <<DeclExport(SymB1)>>,
                       <<FuncSymbol(SymB1, <<>>, "v1")>>)
      [] form = "sideEmpty" -> SourceFile(<<SideEffectImport(RelC)>>, <<>>, <<>>)
      [] form = "star" -> SourceFile(<<>>, <<StarExport(RelC)>>, <<>>)
      [] form = "reX" -> SourceFile(<<>>, <<NamedExports(<<ExportSpec(SymX, None)>>, RelC)>>, <<>>)
      [] form = "reXY" ->
            SourceFile(<<>>, <<NamedExports(<<ExportSpec(SymX, None), ExportSpec(SymY, None)>>,
                                            RelC)>>, <<>>)
      [] form = "reXreY" ->
            SourceFile(<<>>, <<NamedExports(<<ExportSpec(SymX, None)>>, RelC),
                               NamedExports(<<ExportSpec(SymY, None)>>, RelC)>>, <<>>)
      [] form = "reXasZ" ->
            SourceFile(<<>>, <<NamedExports(<<ExportSpec(SymZ, SymX)>>, RelC)>>, <<>>)
      [] form = "impXreY" ->
            SourceFile(<<NamedImport(RelC, SymX)>>,
                       <<DeclExport(UseX), NamedExports(<<ExportSpec(SymY, None)>>, RelC)>>,
                       <<FuncSymbol(UseX, <<SymX>>, "v1")>>)

AForms == {"side", "named", "star", "sideC"}

FileAOf(form, va) ==
    CASE form = "side" ->
            SourceFile(<<SideEffectImport(RelB)>>, <<DeclExport(SymA1)>>,
                       <<FuncSymbol(SymA1, <<>>, va)>>)
      [] form = "named" ->
            SourceFile(<<NamedImport(RelB, UseX)>>, <<DeclExport(SymA1)>>,
                       <<FuncSymbol(SymA1, <<UseX>>, va)>>)
      [] form = "star" -> SourceFile(<<>>, <<StarExport(RelB)>>, <<>>)
      [] form = "sideC" ->
            SourceFile(<<SideEffectImport(RelC)>>, <<DeclExport(SymA1)>>,
                       <<FuncSymbol(SymA1, <<>>, va)>>)

ChainFiles(c, a, b, vx, vy, va) ==
    [r \in {IndexFile, FileA, FileB, FileC} |->
        CASE r = IndexFile -> SourceFile(<<>>, <<StarExport(RelA)>>, <<>>)
          [] r = FileA -> FileAOf(a, va)
          [] r = FileB -> FileBOf(b)
          [] r = FileC -> FileCOf(c, vx, vy)]

Versions == {"v0", "v1"}

ChainWorkspace(c, a, b, vx, vy, va) ==
    [projects |-> <<[PackageName |-> LibD, ProjectFolder |-> Folder(LibD)]>>,
     pkg |-> [p \in {LibD} |-> Manifest(TRUE, {})],
     files |-> [p \in {LibD} |-> ChainFiles(c, a, b, vx, vy, va)],
     old |-> [p \in {LibD} |-> ChainFiles(c, a, b, "v0", "v0", "v0")],
     styles |-> [p \in {LibD} |-> EmptyMap],
     cfg |-> [p \in {LibD} |-> NilConfig],
     changedFiles |-> (IF vx # "v0" \/ vy # "v0" THEN {Folder(LibD) \o Slash \o FileC} ELSE {})
                      \cup (IF va # "v0" THEN {Folder(LibD) \o Slash \o FileA} ELSE {}),
     depChangedDeps |-> EmptyMap,
     includeTypes |-> FALSE, includeCSS |-> FALSE, targetPatterns |-> <<>>,
     failing |-> {}]

\* what the orchestrator hands to the analysis of d: upstream taint and the
\* changed external dependencies
ChainInputs(c) ==
    CASE c = "upstream" -> {[upstream |-> AddAll(EmptyMap, LibU, {SymX0}), external |-> {}]}
      [] c = "external" -> {[upstream |-> EmptyMap, external |-> {Lodash}]}
      [] OTHER -> {[upstream |-> EmptyMap, external |-> {}]}

ChainInit ==
    \E c \in CForms, a \in AForms, b \in BForms, vx \in Versions, vy \in Versions,
       va \in Versions :
        /\ Idle(ChainWorkspace(c, a, b, vx, vy, va))
        /\ inp \in ChainInputs(c)
        /\ res = <<>>

\* the orders in which "for stem := range tainted" can visit the keys
Orderings(S) ==
    {s \in [1..Cardinality(S) -> S] : \A i, j \in 1..Cardinality(S) : s[i] = s[j] => i = j}

\* AnalyzeLibraryPackage up to the BFS loop: the seeds and the first queue
BfsSeed ==
    /\ pc = "start"
    /\ \E seed \in {SeedTaint(ws, LibD, ws.includeTypes, inp.upstream, inp.external)} :
          IF DOMAIN seed = {}
          THEN pc' = "analyzed" /\ res' = <<[tainted |-> seed, queue |-> <<>>]>>
                                /\ output' = <<>>
          ELSE /\ pc' = "bfs"
               /\ \E order \in Orderings(DOMAIN seed) :
                     res' = <<[tainted |-> seed, queue |-> order]>>
               /\ output' = output
    /\ UNCHANGED <<ws, levels, levelIdx, toSpawn, running, resultsCh, allUpstreamTaint,
                   merged, snapSeen, ti, changedE2E, inp>>

\* one iteration of "for len(queue) > 0"
BfsStep ==
    /\ pc = "bfs"
    /\ res[1].queue # <<>>
    /\ res' = <<BFSVisit(ws, LibD, res[1])>>
    /\ UNCHANGED <<ws, pc, levels, levelIdx, toSpawn, running, resultsCh, allUpstreamTaint,
                   merged, snapSeen, ti, changedE2E, output, inp>>

\* the queue is empty: the entrypoints are projected and the call returns
BfsReturn ==
    /\ pc = "bfs"
    /\ res[1].queue = <<>>
    /\ pc' = "analyzed"
    /\ output' = FlattenSeq([i \in DOMAIN FindEntrypoints(ws, LibD) |->
                     EntrypointResult(ws, LibD, FindEntrypoints(ws, LibD)[i], res[1].tainted,
                                      ws.includeTypes, inp.external)])
    /\ UNCHANGED <<ws, levels, levelIdx, toSpawn, running, resultsCh, allUpstreamTaint,
                   merged, snapSeen, ti, changedE2E, inp, res>>

BfsNext == BfsSeed \/ BfsStep \/ BfsReturn

SpecBfs == ChainInit /\ [][BfsNext]_vars

\* the loop is scheduled as long as the queue is not empty
SpecBfsFair == SpecBfs /\ WF_vars(BfsNext)

\* every name a taint set of the package can hold
NameUniverse(w, p) ==
    {Star} \cup UNION {SymbolNames(FileAnalysis(w, p, stem))
                       \cup {e.Name : e \in Range(Exports(FileAnalysis(w, p, stem)))} :
                         stem \in Stems(w, p)}

TaintPairs(tainted) == UNION {{<<stem, n>> : n \in tainted[stem]} : stem \in DOMAIN tainted}

\* the stems a step appended to the queue
Enqueued(before, after) == SubSeq(after.queue, Len(before.queue), Len(after.queue))

\* a step of the loop only adds names, and every file it puts on the queue
\* has a taint set that strictly grew in that step
StepGrows(before, after) ==
    /\ \A stem \in DOMAIN before.tainted :
          stem \in DOMAIN after.tainted /\ before.tainted[stem] \subseteq after.tainted[stem]
    /\ \A i \in DOMAIN Enqueued(before, after) :
          Get(after.tainted, Enqueued(before, after)[i])
              # Get(before.tainted, Enqueued(before, after)[i])
    /\ Len(Enqueued(before, after))
          <= Cardinality(TaintPairs(after.tainted)) - Cardinality(TaintPairs(before.tainted))

\* C21: the BFS taint propagation terminates for every intra-package
\* import graph, import cycles and self-imports included; a step puts a
\* file back on the queue only when its taint set strictly grew, and the
\* taint sets only grow, inside the finite set of names of the package
C21_BfsTerminates ==
    /\ <>(pc = "analyzed")
    /\ [][(pc = "bfs" /\ pc' = "bfs") => StepGrows(res[1], res'[1])]_vars
    /\ [](res # <<>> => \A stem \in DOMAIN res[1].tainted :
                            res[1].tainted[stem] \subseteq NameUniverse(ws, LibD))

\* the taint went once around the cycle c -> b -> a -> c: only X of c
\* changed, a imports b for its side effects, and Y of c, which calls a1 of
\* a, ends up tainted
C21_Witness ==
    /\ pc = "analyzed"
    /\ \E b \in BForms : ws.files[LibD] = ChainFiles("cycle", "side", b, "v1", "v0", "v0")
    /\ SymY \in Get(res[1].tainted, StemC)
    /\ SymA1 \in Get(res[1].tainted, StemA)

\* c imports itself and the loop ends
C21_SelfImport ==
    /\ pc = "analyzed"
    /\ \E a \in AForms, b \in BForms :
          ws.files[LibD] = ChainFiles("self", a, b, "v1", "v0", "v0")
    /\ res[1].tainted[StemC] = {SymX, SymY}

\* the re-exports of a file from files of the same package, with the stem
\* each one resolves to
InPackageReexports(w, p, stem) ==
    {[exp |-> e, from |-> resolveImportSource(w, p, Dir(stem), e.Source)] :
        e \in {x \in Range(Exports(FileAnalysis(w, p, stem))) :
                  /\ x.Source # None
                  /\ IsRelative(x.Source)
                  /\ resolveImportSource(w, p, Dir(stem), x.Source) # None}}

\* the taint map carries the taint of S over the re-export r of F
ReexportCarried(tainted, stem, r) ==
    IF r.exp.IsStar THEN Get(tainted, r.from) \subseteq Get(tainted, stem)
    ELSE (r.exp.LocalName \in Get(tainted, r.from) \/ Star \in Get(tainted, r.from))
            => r.exp.Name \in Get(tainted, stem)

\* C22: after the BFS, for every file F and every re-export of F from a
\* file S of the package, "export * from S" makes every name tainted in S
\* tainted in F, and "export { X as Y } from S" makes Y tainted in F when X
\* or the sentinel is tainted in S -- also when F re-exports several names
\* from S and when F both imports and re-exports from S
C22_ReexportsCarryTaint ==
    pc = "analyzed" =>
        \A stem \in Stems(ws, LibD) :
            \A r \in InPackageReexports(ws, LibD, stem) :
                ReexportCarried(res[1].tainted, stem, r)

\* the same for files with a single re-export from each source and no
\* import from it
SingleReexport(w, p, stem) ==
    \A r \in InPackageReexports(w, p, stem) :
        /\ Cardinality({q \in InPackageReexports(w, p, stem) : q.from = r.from}) = 1
        /\ \A e \in Range(importGraph(w, p, stem)) :
              e.fromStem = r.from => e.localNames \in {<<r.exp.LocalName>>, <<ReexportPlaceholder>>}

C22_SingleReexportsCarryTaint ==
    pc = "analyzed" =>
        \A stem \in {s \in Stems(ws, LibD) : SingleReexport(ws, LibD, s)} :
            \A r \in InPackageReexports(ws, LibD, stem) :
                ReexportCarried(res[1].tainted, stem, r)

\* the taint set of a file is closed under references between its symbols
ClosedUnderReferences(analysis, taintedSet) ==
    \A i, j \in DOMAIN analysis.symbols :
        (/\ ~analysis.symbols[i].IsTypeOnly
         /\ analysis.symbols[i].Name \in taintedSet
         /\ Contains(BodyText(analysis.symbols[j]), analysis.symbols[i].Name))
            => analysis.symbols[j].Name \in taintedSet

\* C23: when the package analysis finishes, in every file a symbol whose
\* body references a tainted runtime symbol of the file is tainted too,
\* whichever seeding step or BFS step tainted the referenced symbol
C23_IntraFileClosed ==
    pc = "analyzed" =>
        \A stem \in DOMAIN res[1].tainted :
            ClosedUnderReferences(FileAnalysis(ws, LibD, stem), res[1].tainted[stem])

\* the same when nothing comes from upstream packages or external
\* dependencies: the seeds are those of the AST diff
C23_ClosedWithoutUpstream ==
    (pc = "analyzed" /\ DOMAIN inp.upstream = {} /\ inp.external = {}) =>
        \A stem \in DOMAIN res[1].tainted :
            ClosedUnderReferences(FileAnalysis(ws, LibD, stem), res[1].tainted[stem])

\* ------------------------------------------------------------------------
\* The AST differ over a file whose symbols reference one another
\*   interface I { a: <fieldT> }
\*   type T = I;
\*   const f: (a: <paramT>) => void = <init>;
\*   export function g() { f(); return v1; }
\*   function h(a: I) { return 1 }
\* ------------------------------------------------------------------------
AliasSymbol ==
    [Name |-> <<"T">>, IsTypeOnly |-> TRUE,
     text |-> <<"type", " ", "T", " ", "=", " ", "I", ";">>,
     ranges |-> <<>>, pos |-> 0, hasStmt |-> TRUE]

UsesInterfaceSymbol ==
    [Name |-> <<"h">>, IsTypeOnly |-> FALSE,
     text |-> <<"function", " ", "h", "(", "a", ":", " ", "I", ")", " ", "{", "return", " ",
                "1", "}">>,
     ranges |-> <<<<5, 8>>>>, pos |-> 0, hasStmt |-> TRUE]

RefsFile(fieldT, paramT, init) ==
    [present |-> TRUE, importDecls |-> <<>>, exportDecls |-> <<DeclExport(<<"g">>)>>,
     symbols |-> <<InterfaceSymbol(0, fieldT), AliasSymbol, VarSymbol(0, paramT, "void", init),
                   FuncSymbol(<<"g">>, <<<<"f">>>>, "v1"), UsesInterfaceSymbol>>]

RefsInit ==
    \E fieldT \in {"number", "string"}, paramT \in {"number", "string"}, init \in {"1", "2"},
       oldField \in {"number", "string"}, oldParam \in {"number", "string"},
       oldInit \in {"1", "2"}, includeTypes \in BOOLEAN :
        /\ Idle(PkgWorkspace("star", LibU, includeTypes))
        /\ inp = [old |-> RefsFile(oldField, oldParam, oldInit),
                  new |-> RefsFile(fieldT, paramT, init),
                  includeTypes |-> includeTypes]
        /\ res = <<>>

SpecRefs == RefsInit /\ [][CallDiff]_vars

OldOf(sym) == LastSymbol(inp.old.symbols, sym.Name)

TextChanged(sym) == normalizeWhitespace(sym.text) # normalizeWhitespace(OldOf(sym).text)

\* the runtime-only projection of a runtime symbol changed
RuntimeChanged(sym) == ~sym.IsTypeOnly /\ EraseTypes(sym) # EraseTypes(OldOf(sym))

\* the names reachable from those of S along the references of the symbols
RECURSIVE ReferencedFrom(_, _)
ReferencedFrom(analysis, S) ==
    With(S \cup UNION {SymbolDeps(analysis, analysis.symbols[i]) :
                          i \in {j \in DOMAIN analysis.symbols : analysis.symbols[j].Name \in S}},
         LAMBDA next : IF next = S THEN S ELSE ReferencedFrom(analysis, next))

\* C24: a runtime symbol whose own text is unchanged is reported only when
\* it references, directly or through other symbols, a symbol with a
\* runtime change; a changed interface or type alias, or a runtime symbol
\* whose runtime-only projection is unchanged, does not make it affected,
\* with includeTypes on and off
C24_TypeOnlyDoesNotReachRuntime ==
    Len(res) = 1 =>
        \A i \in DOMAIN inp.new.symbols :
            (/\ inp.new.symbols[i].Name \in res[1]
             /\ ~inp.new.symbols[i].IsTypeOnly
             /\ ~TextChanged(inp.new.symbols[i]))
                => \E j \in DOMAIN inp.new.symbols :
                      /\ RuntimeChanged(inp.new.symbols[j])
                      /\ inp.new.symbols[j].Name
                             \in ReferencedFrom(inp.new, {inp.new.symbols[i].Name})

\* the same with includeTypes off
C24_WithoutIncludeTypes ==
    (Len(res) = 1 /\ ~inp.includeTypes) =>
        \A i \in DOMAIN inp.new.symbols :
            (/\ inp.new.symbols[i].Name \in res[1]
             /\ ~inp.new.symbols[i].IsTypeOnly
             /\ ~TextChanged(inp.new.symbols[i]))
                => \E j \in DOMAIN inp.new.symbols :
                      /\ RuntimeChanged(inp.new.symbols[j])
                      /\ inp.new.symbols[j].Name
                             \in ReferencedFrom(inp.new, {inp.new.symbols[i].Name})

\* ------------------------------------------------------------------------
\* the orchestrator with INCLUDE_CSS over the workspace of the runs, in
\* which src/styles.ts of library d (entrypoint "./styles", exports x and
\* y) imports a style path of u, and t imports x from "d/styles"
\* ------------------------------------------------------------------------
UStylePaths ==
    {<<"u", "/", "styles", "/", "main", ".css">>,
     <<"u", "/", "theme", ".scss">>,
     <<"u", "/", "styles", "/", "theme">>}

UStyleFile == <<"libs", "/", "u", "/", "styles", "/", "main", ".scss">>

CssWorkspace(stylePath, css, changed) ==
    With(TargetWorkspace([changed |-> changed, css |-> css, timport |-> "named",
                          ignores |-> FALSE, fine |-> FALSE, app |-> FALSE, lock |-> {}]),
         LAMBDA w :
           [w EXCEPT
              !.files[LibD][StylesFile] =
                  PlainFile(<<SideEffectImport(stylePath)>>, <<<<"x">>, <<"y">>>>, <<>>, "v1"),
              !.old[LibD][StylesFile] =
                  PlainFile(<<SideEffectImport(stylePath)>>, <<<<"x">>, <<"y">>>>, <<>>, "v1")])

CssInit ==
    \E stylePath \in UStylePaths, css \in BOOLEAN,
       changed \in {{}, {UStyleFile}, {UStyleFile, <<"libs", "/", "u">> \o Slash \o IndexFile}} :
        /\ Idle(CssWorkspace(stylePath, css, changed))
        /\ inp = stylePath
        /\ res = <<>>

SpecCss == CssInit /\ [][Next]_vars

\* C25: with INCLUDE_CSS, when a style file of u changed and a source file
\* of library d imports a style path under u, then once the level of d is
\* merged the exports that the symbols of that file define (x and y of
\* "d/styles") are in the shared map for d's dependents
C25_StyleImportTaintsDownstream ==
    (/\ ws.includeCSS
     /\ UStyleFile \in ws.changedFiles
     /\ LibD \in merged)
        => {<<"x">>, <<"y">>} \subseteq Get(allUpstreamTaint, StylesSpecifier(LibD))

\* ------------------------------------------------------------------------
\* FindAffectedFiles over a project whose files are
\*   scen/a.ts      imports mid from "./lib/mid"
\*   scen/b.ts      imports helper from "./lib/h"
\*   scen/c.ts      no imports
\*   scen/lib/mid.ts imports helper from "./h", or re-exports it
\*   scen/lib/h.ts  no imports
\* ------------------------------------------------------------------------
ScenB == <<"scen", "/", "b", ".ts">>

ScenC == <<"scen", "/", "c", ".ts">>

LibMid == <<"scen", "/", "lib", "/", "mid", ".ts">>

LibH == <<"scen", "/", "lib", "/", "h", ".ts">>

ScenGlobs ==
    {<<"scen", "/", "*">>, <<"scen", "/", "**", "/", "*">>, <<"scen", "/", "lib", "/", "*">>}

ScenIgnoreLists == {<<>>, <<LibMid>>, <<ScenB>>}

MidForms == {"import", "reexport"}

ScenFilesAt(midForm, version) ==
    [r \in {ScenFile, ScenB, ScenC, LibMid, LibH} |->
        IF r = ScenFile
        THEN PlainFile(<<NamedImport(<<"./", "lib", "/", "mid">>, <<"mid">>)>>,
                       <<<<"scenario">>>>, <<<<"mid">>>>, "v1")
        ELSE IF r = ScenB
        THEN PlainFile(<<NamedImport(<<"./", "lib", "/", "h">>, <<"helper">>)>>,
                       <<<<"other">>>>, <<<<"helper">>>>, "v1")
        ELSE IF r = ScenC THEN PlainFile(<<>>, <<<<"third">>>>, <<>>, version)
        ELSE IF r = LibH THEN PlainFile(<<>>, <<<<"helper">>>>, <<>>, version)
        ELSE IF midForm = "import"
        THEN PlainFile(<<NamedImport(<<"./", "h">>, <<"helper">>)>>, <<<<"mid">>>>,
                       <<<<"helper">>>>, version)
        ELSE [PlainFile(<<>>, <<<<"mid">>>>, <<>>, version)
                 EXCEPT !.exportDecls = <<DeclExport(<<"mid">>), StarExport(<<"./", "h">>)>>]]

ScenWorkspace(midForm, ignores, changed) ==
    With(TargetWorkspace([changed |-> changed, css |-> FALSE, timport |-> "none",
                          ignores |-> FALSE, fine |-> FALSE, app |-> FALSE, lock |-> {}]),
         LAMBDA w :
           [w EXCEPT !.files[VtProject] = ScenFilesAt(midForm, "v1"),
                     !.old[VtProject] = ScenFilesAt(midForm, "v0"),
                     !.cfg[VtProject].Ignores = ignores])

ScenInit ==
    \E midForm \in MidForms, ignores \in ScenIgnoreLists, globPattern \in ScenGlobs,
       changed \in SUBSET {VtFolder \o Slash \o LibH, VtFolder \o Slash \o LibMid,
                           VtFolder \o Slash \o ScenC} :
        /\ Idle(ScenWorkspace(midForm, ignores, changed))
        /\ inp = globPattern
        /\ res = <<>>

CallFindAffectedFiles ==
    /\ res = <<>>
    /\ res' = <<FindAffectedFiles(ws, VtProject, inp, EmptyMap, ws.cfg[VtProject], {},
                                  ws.includeTypes)>>
    /\ UNCHANGED <<ws, pc, levels, levelIdx, toSpawn, running, resultsCh, allUpstreamTaint,
                   merged, snapSeen, ti, changedE2E, output, inp>>

SpecFiles == ScenInit /\ [][CallFindAffectedFiles]_vars

\* the relative imports and re-exports of a file of the project
RelativeTargets(rel) ==
    {resolveImportSource(ws, VtProject, Dir(rel), imp.source) :
        imp \in {i \in Range(ws.files[VtProject][rel].importDecls) : IsRelative(i.source)}}
    \cup {resolveImportSource(ws, VtProject, Dir(rel), exp.source) :
        exp \in {e \in Range(ws.files[VtProject][rel].exportDecls) :
                    e.source # None /\ IsRelative(e.source)}}

RECURSIVE ReachesFrom(_, _)
ReachesFrom(rels, n) ==
    IF n = 0 THEN rels
    ELSE ReachesFrom(rels \cup {r \in DOMAIN ws.files[VtProject] :
                                  \E c \in rels : stripTSExtension(c) \in RelativeTargets(r)},
                     n - 1)

\* every file of the project here differs from its merge-base version
ChangedOfProject ==
    {rel \in DOMAIN ws.files[VtProject] : VtFolder \o Slash \o rel \in ws.changedFiles}

ExpectedAffected ==
    {rel \in ReachesFrom(ChangedOfProject, Cardinality(DOMAIN ws.files[VtProject])) :
        GlobMatch(inp, rel) /\ ~IsIgnored(ws.cfg[VtProject], rel)}

StrictlySorted(seq) ==
    \A i \in 1..(Len(seq) - 1) : LessStr(seq[i], seq[i + 1])

\* C26: FindAffectedFiles returns, sorted and without ignored files, every
\* file matching the glob that is changed or reaches a changed file of the
\* project through relative imports or re-exports, also when the changed
\* or intermediate files do not match the glob
C26_AffectedFilesComplete ==
    res # <<>> =>
        /\ StrictlySorted(res[1])
        /\ Range(res[1]) = ExpectedAffected

\* when every file of the project matches the glob and none is ignored the
\* result is the sorted set of the files that reach a changed file
C26_WithinGlob ==
    (/\ res # <<>>
     /\ inp = <<"scen", "/", "**", "/", "*">>
     /\ ws.cfg[VtProject].Ignores = <<>>)
        => /\ StrictlySorted(res[1])
           /\ Range(res[1]) = ExpectedAffected

C26_HelperOutsideGlob ==
    ~(/\ res = <<<<>>>>
      /\ inp = <<"scen", "/", "*">>
      /\ ws.cfg[VtProject].Ignores = <<>>
      /\ ws.changedFiles = {VtFolder \o Slash \o LibH}
      /\ ExpectedAffected = {ScenFile, ScenB})

\* ------------------------------------------------------------------------
\* the changed lines of the lockfile diff
\* ------------------------------------------------------------------------
\* the hunk header that governs line i of the diff, 0 before the first hunk
HunkHeaderOf(i) ==
    IF \E h \in 1..(i - 1) : inp[h].prefix = "@@"
    THEN CHOOSE h \in 1..(i - 1) :
            /\ inp[h].prefix = "@@"
            /\ \A k \in (h + 1)..(i - 1) : inp[k].prefix # "@@"
    ELSE 0

\* the new-file line numbers of the added lines of all hunks
AddedLineNumbers ==
    {inp[HunkHeaderOf(i)].start
        + Cardinality({k \in (HunkHeaderOf(i) + 1)..(i - 1) : inp[k].prefix # "-"}) :
        i \in {j \in DOMAIN inp : inp[j].prefix = "+" /\ HunkHeaderOf(j) # 0}}

HunkStarts == {inp[h].start : h \in {j \in DOMAIN inp : inp[j].prefix = "@@"}}

\* C27: parseDiffChangedLines returns exactly the new-file line numbers of
\* the added lines of every hunk, for every hunk start including line 1,
\* and no number for removed, context or file-header lines
C27_AddedLinesExact ==
    res # <<>> => Range(parseDiffChangedLines(inp)) = AddedLineNumbers

\* for hunks that do not start at line 1 the numbers are exact
C27_HunksBelowLineOne ==
    (res # <<>> /\ 1 \notin HunkStarts) => Range(parseDiffChangedLines(inp)) = AddedLineNumbers

\* a hunk starting at line 1 with added lines yields no line number at all
C27_FirstLineHunkLost ==
    (res # <<>> /\ 1 \in HunkStarts) => parseDiffChangedLines(inp) = <<>>

\* ------------------------------------------------------------------------
\* stripRanges on its own: a text of StripLen one-byte tokens, up to
\* MaxRanges absolute ranges in any order, and the offset of the text
\* ------------------------------------------------------------------------
StripText == <<"a", "b", "c", "d", "e">>

StripLen == Len(StripText)

MaxRanges == 2

\* non-empty ranges inside the text (the ranges of a statement's nodes),
\* relative to the start of the text
ByteRanges == {r \in (0..StripLen) \X (0..StripLen) : r[1] < r[2]}

StripInit ==
    \E n \in 0..MaxRanges, offset \in 0..MaxOffset :
        \E ranges \in [1..n -> ByteRanges] :
            /\ Idle(PkgWorkspace("star", LibU, FALSE))
            /\ inp = [text |-> StripText, ranges |-> Ranges(offset, ranges), offset |-> offset]
            /\ res = <<>>

CallStripRanges ==
    /\ res = <<>>
    /\ res' = <<stripRanges(inp.text, inp.ranges, inp.offset)>>
    /\ UNCHANGED <<ws, pc, levels, levelIdx, toSpawn, running, resultsCh, allUpstreamTaint,
                   merged, snapSeen, ti, changedE2E, output, inp>>

SpecStrip == StripInit /\ [][CallStripRanges]_vars

\* byte i of the text (counted from 1) lies in one of the ranges
InSomeRange(i) ==
    \E j \in DOMAIN inp.ranges :
        inp.ranges[j][1] - inp.offset < i /\ i <= inp.ranges[j][2] - inp.offset

RECURSIVE KeepOutside(_)
KeepOutside(i) ==
    IF i > Len(inp.text) THEN <<>>
    ELSE (IF InSomeRange(i) THEN <<>> ELSE <<inp.text[i]>>) \o KeepOutside(i + 1)

\* two ranges share a byte, or one lies inside the other
RangesOverlap ==
    \E j, k \in DOMAIN inp.ranges :
        j # k /\ inp.ranges[j][1] < inp.ranges[k][2] /\ inp.ranges[k][1] < inp.ranges[j][2]

\* C28: stripRanges returns the text with exactly the union of the ranges
\* removed and the rest kept in order, also for overlapping and nested
\* ranges; no byte inside a range is in the result
C28_StripsUnion ==
    res # <<>> => res[1] = KeepOutside(1)

\* for ranges that do not overlap the result is the text outside them
C28_DisjointRanges ==
    (res # <<>> /\ ~RangesOverlap) => res[1] = KeepOutside(1)

\* a range nested in another: the bytes after the inner range up to the
\* end of the outer one are in the result
C28_NestedReemits ==
    ~(/\ res # <<>>
      /\ inp.offset = 0
      /\ inp.ranges = <<<<1, 5>>, <<2, 3>>>>
      /\ res[1] = <<"a", "d", "e">>)

\* ------------------------------------------------------------------------
\* chains of side-effect imports
\* ------------------------------------------------------------------------
\* file "from" has `import "./to";`
SideEffectEdge(from, to) ==
    \E d \in Range(FileAnalysis(ws, LibD, from).importDecls) :
        /\ d.default = None /\ d.ns = None /\ d.named = <<>>
        /\ resolveImportSource(ws, LibD, Dir(from), d.source) = to

RECURSIVE SideReaches(_, _, _)
SideReaches(from, to, n) ==
    \/ SideEffectEdge(from, to)
    \/ /\ n > 0
       /\ \E mid \in Stems(ws, LibD) : SideEffectEdge(from, mid) /\ SideReaches(mid, to, n - 1)

\* C29: when a file has a non-empty taint set and another file reaches it
\* through a chain of side-effect imports, every symbol the other file
\* declares is tainted after the BFS, whatever the files in between declare
C29_SideEffectChains ==
    pc = "analyzed" =>
        \A from, to \in Stems(ws, LibD) :
            (/\ Get(res[1].tainted, to) # {}
             /\ SideReaches(from, to, Cardinality(Stems(ws, LibD))))
                => SymbolNames(FileAnalysis(ws, LibD, from))
                      \subseteq Get(res[1].tainted, from)

\* chains whose intermediate files all declare a symbol
C29_ChainsThroughSymbols ==
    (pc = "analyzed" /\ SymbolNames(FileAnalysis(ws, LibD, StemB)) # {}) =>
        \A from, to \in Stems(ws, LibD) :
            (/\ Get(res[1].tainted, to) # {}
             /\ SideReaches(from, to, Cardinality(Stems(ws, LibD))))
                => SymbolNames(FileAnalysis(ws, LibD, from))
                      \subseteq Get(res[1].tainted, from)

\* a -> b -> c with b declaring nothing: c is tainted and a is not
C29_EmptyIntermediate ==
    ~(/\ pc = "analyzed"
      /\ ws.files[LibD] = ChainFiles("plain", "side", "sideEmpty", "v1", "v0", "v0")
      /\ Get(res[1].tainted, StemC) = {SymX}
      /\ Get(res[1].tainted, StemA) = {})

\* ------------------------------------------------------------------------
\* the chain package with src/c.ts re-exporting an external dependency:
\*   export * from "lodash";            (form "star")
\*   export { x0 } from "lodash";       (form "named")
\* next to its functions X and Y
\* ------------------------------------------------------------------------
ExternalForms == {"star", "named"}

FileCExternal(form, vx, vy) ==
    SourceFile(<<>>,
               <<DeclExport(SymX), DeclExport(SymY),
                 IF form = "star" THEN StarExport(Lodash)
                 ELSE NamedExports(<<ExportSpec(SymX0, None)>>, Lodash)>>,
               <<FuncSymbol(SymX, <<>>, vx), FuncSymbol(SymY, <<>>, vy)>>)

ExternalWorkspace(form, a, b, vx, vy, va) ==
    [ChainWorkspace("plain", a, b, vx, vy, va) EXCEPT
        !.files[LibD][FileC] = FileCExternal(form, vx, vy),
        !.old[LibD][FileC] = FileCExternal(form, "v0", "v0")]

ExternalInit ==
    \E form \in ExternalForms, a \in AForms, b \in BForms, vx \in Versions, va \in Versions,
       external \in {{}, {Lodash}} :
        /\ Idle(ExternalWorkspace(form, a, b, vx, "v0", va))
        /\ inp = [upstream |-> EmptyMap, external |-> external]
        /\ res = <<>>

SpecExternal == ExternalInit /\ [][BfsNext]_vars

NoDuplicates(seq) == \A i, j \in DOMAIN seq : seq[i] = seq[j] => i = j

\* C30: every AffectedExport returned by the package analyzer has a
\* non-empty list of export names without duplicates and without the "*"
\* sentinel, so merging the result creates no upstream-taint entry with an
\* empty name set
C30_ExportNamesNonEmpty ==
    pc = "analyzed" =>
        /\ \A i \in DOMAIN output :
              /\ output[i].ExportNames # <<>>
              /\ NoDuplicates(output[i].ExportNames)
              /\ Star \notin Range(output[i].ExportNames)
        /\ \A key \in DOMAIN MergeResult(EmptyMap, LibD, output) :
              MergeResult(EmptyMap, LibD, output)[key] # {}

\* the names that are returned are distinct and never the sentinel
C30_NoSentinelNoDuplicates ==
    pc = "analyzed" =>
        \A i \in DOMAIN output :
            /\ NoDuplicates(output[i].ExportNames)
            /\ Star \notin Range(output[i].ExportNames)

\* the sentinel of `export * from "lodash"` reaches the entrypoint through
\* the star re-exports of b, a and index.ts, and the entry has no names
C30_SentinelOnly ==
    ~(/\ pc = "analyzed"
      /\ ws.files[LibD] = [ChainFiles("plain", "star", "star", "v0", "v0", "v0")
                              EXCEPT ![FileC] = FileCExternal("star", "v0", "v0")]
      /\ Get(res[1].tainted, StemA) = {Star}
      /\ output = <<[EntrypointPath |-> <<".">>, ExportNames |-> <<>>]>>
      /\ MergeResult(EmptyMap, LibD, output) = AddAll(EmptyMap, LibD, {}))

====
